---------------------------- MODULE Spec2Model ----------------------------
(***************************************************************************)
(* Model of the core address/prefix arithmetic of subnet-tree-calculator:  *)
(* the address codec and CIDR normaliser (src/src/core/parser.ts), the     *)
(* metadata engine (calculations.ts), the transformation engine            *)
(* (transformations.ts), the set reasoning engine (set-operations.ts) and  *)
(* the VLSM allocator (vlsm.ts), the lookups of search.ts and service.ts,  *)
(* and the presentation tree of the visual designer                        *)
(* (SubnetTreeCalculator: toggleSplit on the tree held in its state).      *)
(*                                                                         *)
(* The library is a set of pure functions.  Each is an operator with the   *)
(* source's name, computed the way the source computes it; an action       *)
(* Call<Function> draws the arguments from a bounded set and records the   *)
(* call and its outcome in the state.  A thrown Error is the outcome Err.  *)
(*                                                                         *)
(* Scaling.  Addresses are Bits4 (source: 32) and Bits6 (source: 128) bits *)
(* wide and the int32 of JavaScript's << is ShiftBits (source: 32) bits    *)
(* wide; Math.log2 is a double whose result near an integer k is exact to  *)
(* LogBits (source: about 49) bits, between the two address widths as in   *)
(* the source.  A dotted/colon text has one group per address bit         *)
(* (source: 4 octets of 8 bits, 8 hextets of 16 bits), so a group is 0 or  *)
(* 1.  All                                                                 *)
(* offsets the source writes relative to the width (prefix === 32,         *)
(* prefix === 31, 1 << 31) are written relative to the scaled width.       *)
(***************************************************************************)
EXTENDS Integers, Sequences, FiniteSets, TLC

VARIABLES op, args, res, root, idCounter, maxDepth

vars == <<op, args, res, root, idCounter, maxDepth>>

\* the state of the visual designer: its tree, its id counter, its depth limit
tree == <<root, idCounter, maxDepth>>

(* ------------------------------ bounds -------------------------------- *)
\* width of an IPv4 address (32 in the source)
Bits4 == 4
\* width of an IPv6 address (128 in the source)
Bits6 == 6
\* width of the int32 operand of `1 << n` (32 in the source)
ShiftBits == 4
\* precision of Math.log2 next to an integer result: the double nearest to
\* log2(2^k + m) is k itself once m / 2^k <= 2^-LogBits (about 49 in the
\* source, for k in 32..63)
LogBits == 5

\* largest depth limit of the visual designer (its input allows 0..128)
MaxDepth == 2
\* ids the designer hands out before the model stops splitting
MaxIds == 9

(* --------------------------- integer helpers --------------------------- *)
RECURSIVE Pow2(_)
\* 1n << BigInt(n)
Pow2(n) == IF n <= 0 THEN 1 ELSE 2 * Pow2(n - 1)

RECURSIVE BitAnd(_, _)
\* a & b on non-negative bigints
BitAnd(a, b) ==
  IF a = 0 \/ b = 0 THEN 0
  ELSE (a % 2) * (b % 2) + 2 * BitAnd(a \div 2, b \div 2)

RECURSIVE BitOr(_, _)
\* a | b on non-negative bigints
BitOr(a, b) ==
  IF a = 0 THEN b
  ELSE IF b = 0 THEN a
  ELSE (IF a % 2 = 1 \/ b % 2 = 1 THEN 1 ELSE 0) + 2 * BitOr(a \div 2, b \div 2)

\* Math.ceil(Math.log2(n)) for an integer n >= 1 held in a double: exact at
\* a power of two, rounded down to k when n is so little above 2^k that the
\* double nearest to log2(n) is k, and k + 1 otherwise
CeilLog2(n) ==
  LET k == CHOOSE x \in 0..n : Pow2(x) <= n /\ n < Pow2(x + 1)
  IN IF n = Pow2(k) THEN k
     ELSE IF (n - Pow2(k)) * Pow2(LogBits) <= Pow2(k) THEN k
     ELSE k + 1

\* JavaScript `1 << d` for d >= 0: the count is taken modulo the int32 width
\* and the result is a signed int32 (the top bit makes it negative).
ShiftLeft1(d) ==
  LET c == d % ShiftBits
  IN IF c = ShiftBits - 1 THEN 0 - Pow2(ShiftBits - 1) ELSE Pow2(c)

(* ------------------------------ outcomes ------------------------------- *)
\* a thrown Error
Err == [ok |-> FALSE]
\* a returned value
Ok(v) == [ok |-> TRUE, val |-> v]

(* ------------------------------ types.ts ------------------------------- *)
BitsOf(version) == IF version = 6 THEN Bits6 ELSE Bits4

Cidr(version, network, prefix) ==
  [version |-> version, bits |-> BitsOf(version), network |-> network, prefix |-> prefix]

(* ----------------------------- parser.ts ------------------------------- *)
\* An address text is its separator and the groups between the separators.
\* parts is what s.split('::') yields for a colon text (each part the
\* groups of s.split(':')), and the single list of octets for a dotted text.
V4Text(octets) == [sep |-> ".", parts |-> <<octets>>]
V6Text(parts) == [sep |-> ":", parts |-> parts]

isLikelyIpv6(s) == s.sep = ":"

RECURSIVE groupsToBigInt(_, _)
\* n = n * 256n + v   /   n = (n << 16n) + v, one bit per group
groupsToBigInt(groups, n) ==
  IF groups = <<>> THEN n
  ELSE groupsToBigInt(Tail(groups), n * 2 + Head(groups))

ipv4ToBigInt(ip) ==
  IF ip.sep # "." THEN Err
  ELSE LET parts == ip.parts[1]
       IN IF Len(parts) # Bits4 THEN Err
          ELSE IF \E i \in 1..Len(parts) : parts[i] < 0 \/ parts[i] > 1 THEN Err
          ELSE Ok(groupsToBigInt(parts, 0))

hextetsToBigInt(hextets) ==
  IF \E i \in 1..Len(hextets) : hextets[i] < 0 \/ hextets[i] > 1 THEN Err
  ELSE Ok(groupsToBigInt(hextets, 0))

\* mutant: the hextets '::' stands for are appended instead of inserted
ipv6ToBigInt_PadRight(ip) ==
  IF ip.sep # ":" THEN Err
  ELSE IF Len(ip.parts) > 2 THEN Err
  ELSE LET left == ip.parts[1]
           right == IF Len(ip.parts) = 2 THEN ip.parts[2] ELSE <<>>
           total == Len(left) + Len(right)
       IN IF Len(ip.parts) = 1
          THEN IF Len(left) # Bits6 THEN Err ELSE hextetsToBigInt(left)
          ELSE IF total > Bits6 THEN Err
          ELSE hextetsToBigInt(left \o right \o [i \in 1..(Bits6 - total) |-> 0])

ipv6ToBigInt(ip) ==
  IF ip.sep # ":" THEN Err
  ELSE IF Len(ip.parts) > 2 THEN Err
  ELSE LET left == ip.parts[1]
           right == IF Len(ip.parts) = 2 THEN ip.parts[2] ELSE <<>>
           total == Len(left) + Len(right)
       IN IF Len(ip.parts) = 1
          THEN IF Len(left) # Bits6 THEN Err ELSE hextetsToBigInt(left)
          ELSE IF total > Bits6 THEN Err
          ELSE hextetsToBigInt(left \o [i \in 1..(Bits6 - total) |-> 0] \o right)

\* the groups of n, most significant first
GroupsOf(n, bits) == [i \in 1..bits |-> (n \div Pow2(bits - i)) % 2]

bigIntToIpv4(n) ==
  IF n < 0 \/ n > Pow2(Bits4) - 1 THEN Err ELSE Ok(V4Text(GroupsOf(n, Bits4)))

\* length of the run of zero hextets starting at i
RECURSIVE ZeroRun(_, _)
ZeroRun(hextets, i) ==
  IF i > Len(hextets) \/ hextets[i] # 0 THEN 0 ELSE 1 + ZeroRun(hextets, i + 1)

RECURSIVE BestRun_LastWins(_, _, _, _)
\* the scan letting a later run of equal length replace the best one
BestRun_LastWins(hextets, i, bestStart, bestLen) ==
  IF i > Len(hextets) THEN <<bestStart, bestLen>>
  ELSE IF hextets[i] = 0
       THEN LET len == ZeroRun(hextets, i)
            IN IF len >= 2 /\ len >= bestLen
               THEN BestRun_LastWins(hextets, i + len, i, len)
               ELSE BestRun_LastWins(hextets, i + len, bestStart, bestLen)
       ELSE BestRun_LastWins(hextets, i + 1, bestStart, bestLen)

RECURSIVE BestRun(_, _, _, _)
\* the scan for (bestStart, bestLen): a run of two or more zero hextets
\* replaces the best one only when strictly longer
BestRun(hextets, i, bestStart, bestLen) ==
  IF i > Len(hextets) THEN <<bestStart, bestLen>>
  ELSE IF hextets[i] = 0
       THEN LET len == ZeroRun(hextets, i)
            IN IF len >= 2 /\ len > bestLen
               THEN BestRun(hextets, i + len, i, len)
               ELSE BestRun(hextets, i + len, bestStart, bestLen)
       ELSE BestRun(hextets, i + 1, bestStart, bestLen)

bigIntToIpv6(n) ==
  LET hextets == GroupsOf(n, Bits6)
      best == BestRun(hextets, 1, 0, 0)
      bestStart == best[1]
      bestLen == best[2]
  IN IF n < 0 \/ n > Pow2(Bits6) - 1 THEN Err
     ELSE IF bestStart = 0 THEN Ok(V6Text(<<hextets>>))
     ELSE Ok(V6Text(<<SubSeq(hextets, 1, bestStart - 1),
                      SubSeq(hextets, bestStart + bestLen, Len(hextets))>>))

maskFromPrefix(prefix, bits) ==
  IF prefix = 0 THEN 0
  ELSE IF prefix = bits THEN Pow2(bits) - 1
  ELSE (Pow2(prefix) - 1) * Pow2(bits - prefix)

\* mutant: the block size where the wildcard (size - 1) is meant
wildcardFromPrefix_OffByOne(prefix, bits) == Pow2(bits - prefix)

wildcardFromPrefix(prefix, bits) ==
  IF bits - prefix = 0 THEN 0 ELSE Pow2(bits - prefix) - 1

\* A CIDR text is the address text and the number after the slash.
CidrText(addr, prefix) == [addr |-> addr, prefix |-> prefix]

parseCidr(input) ==
  LET version == IF isLikelyIpv6(input.addr) THEN 6 ELSE 4
      bits == BitsOf(version)
  IN IF input.prefix < 0 \/ input.prefix > bits THEN Err
     ELSE LET ip == IF version = 6 THEN ipv6ToBigInt(input.addr)
                    ELSE ipv4ToBigInt(input.addr)
          IN IF ~ip.ok THEN Err
             ELSE Ok(Cidr(version, BitAnd(ip.val, maskFromPrefix(input.prefix, bits)),
                          input.prefix))

formatAddress(version, n) == IF version = 6 THEN bigIntToIpv6(n) ELSE bigIntToIpv4(n)

formatCidr(version, network, prefix) ==
  LET a == formatAddress(version, network)
  IN IF a.ok THEN Ok(CidrText(a.val, prefix)) ELSE Err

\* mutant: the address is returned without clearing its host bits
parseCidrWithNetmask_NoMask(address, netmask) ==
  LET version == IF isLikelyIpv6(address) THEN 6 ELSE 4
      bits == BitsOf(version)
      ip == IF version = 6 THEN ipv6ToBigInt(address) ELSE ipv4ToBigInt(address)
      maskValue == IF version = 6 THEN ipv6ToBigInt(netmask) ELSE ipv4ToBigInt(netmask)
  IN IF ~ip.ok \/ ~maskValue.ok THEN Err
     ELSE LET prefix == CHOOSE k \in 0..bits :
                          /\ \A i \in 0..(k - 1) :
                               BitAnd(maskValue.val, Pow2(bits - 1 - i)) # 0
                          /\ (k = bits \/ BitAnd(maskValue.val, Pow2(bits - 1 - k)) = 0)
          IN IF maskValue.val # maskFromPrefix(prefix, bits) THEN Err
             ELSE Ok(Cidr(version, ip.val, prefix))

\* parseCidrWithNetmask without the check that the mask is contiguous
parseCidrWithNetmask_AnyMask(address, netmask) ==
  LET version == IF isLikelyIpv6(address) THEN 6 ELSE 4
      bits == BitsOf(version)
      ip == IF version = 6 THEN ipv6ToBigInt(address) ELSE ipv4ToBigInt(address)
      maskValue == IF version = 6 THEN ipv6ToBigInt(netmask) ELSE ipv4ToBigInt(netmask)
  IN IF ~ip.ok \/ ~maskValue.ok THEN Err
     ELSE LET prefix == CHOOSE k \in 0..bits :
                          /\ \A i \in 0..(k - 1) :
                               BitAnd(maskValue.val, Pow2(bits - 1 - i)) # 0
                          /\ (k = bits \/ BitAnd(maskValue.val, Pow2(bits - 1 - k)) = 0)
          IN Ok(Cidr(version, BitAnd(ip.val, maskValue.val), prefix))

parseCidrWithNetmask(address, netmask) ==
  LET version == IF isLikelyIpv6(address) THEN 6 ELSE 4
      bits == BitsOf(version)
      ip == IF version = 6 THEN ipv6ToBigInt(address) ELSE ipv4ToBigInt(address)
      maskValue == IF version = 6 THEN ipv6ToBigInt(netmask) ELSE ipv4ToBigInt(netmask)
  IN IF ~ip.ok \/ ~maskValue.ok THEN Err
     ELSE LET \* count leading ones
              prefix == CHOOSE k \in 0..bits :
                          /\ \A i \in 0..(k - 1) :
                               BitAnd(maskValue.val, Pow2(bits - 1 - i)) # 0
                          /\ (k = bits \/ BitAnd(maskValue.val, Pow2(bits - 1 - k)) = 0)
          IN IF maskValue.val # maskFromPrefix(prefix, bits) THEN Err
             ELSE Ok(Cidr(version, BitAnd(ip.val, maskValue.val), prefix))

\* number of trailing zero bits of current, capped at bits
RECURSIVE TrailingZeros(_, _, _)
TrailingZeros(temp, trailingZeros, bits) ==
  IF trailingZeros < bits /\ temp % 2 = 0
  THEN TrailingZeros(temp \div 2, trailingZeros + 1, bits)
  ELSE trailingZeros

RECURSIVE RangeLoop(_, _, _, _, _)
\* the while (current <= endInt) loop of rangeToMinimalPrefixes
RangeLoop(version, bits, current, endInt, result) ==
  IF ~(current <= endInt) THEN result
  ELSE LET tz == TrailingZeros(current, 0, bits)
           fits == {p \in (bits - tz)..bits : current + Pow2(bits - p) - 1 <= endInt}
           prefix == IF fits = {} THEN bits
                     ELSE CHOOSE p \in fits : \A q \in fits : p <= q
           next == current + Pow2(bits - prefix)
           out == Append(result, [version |-> version, bits |-> bits,
                                  network |-> current, prefix |-> prefix])
       IN IF next = 0 THEN out
          ELSE RangeLoop(version, bits, next, endInt, out)

\* rangeToMinimalPrefixes taking end as exclusive
rangeToMinimalPrefixes_EndExclusive(start, end) ==
  LET version == IF isLikelyIpv6(start) THEN 6 ELSE 4
      bits == BitsOf(version)
      startInt == IF version = 6 THEN ipv6ToBigInt(start) ELSE ipv4ToBigInt(start)
      endInt == IF version = 6 THEN ipv6ToBigInt(end) ELSE ipv4ToBigInt(end)
  IN IF ~startInt.ok \/ ~endInt.ok THEN Err
     ELSE IF startInt.val > endInt.val THEN Err
     ELSE Ok(RangeLoop(version, bits, startInt.val, endInt.val - 1, <<>>))

rangeToMinimalPrefixes(start, end) ==
  LET version == IF isLikelyIpv6(start) THEN 6 ELSE 4
      bits == BitsOf(version)
      startInt == IF version = 6 THEN ipv6ToBigInt(start) ELSE ipv4ToBigInt(start)
      endInt == IF version = 6 THEN ipv6ToBigInt(end) ELSE ipv4ToBigInt(end)
  IN IF ~startInt.ok \/ ~endInt.ok THEN Err
     ELSE IF startInt.val > endInt.val THEN Err
     ELSE Ok(RangeLoop(version, bits, startInt.val, endInt.val, <<>>))

(* --------------------------- calculations.ts --------------------------- *)
subnetMeta(network, prefix, version, bits) ==
  IF prefix < 0 \/ prefix > bits THEN Err
  ELSE
    LET mask == maskFromPrefix(prefix, bits)
        wildcard == wildcardFromPrefix(prefix, bits)
        last == BitOr(network, wildcard)
        addressCount == Pow2(bits - prefix)
        usableCount == IF version = 4
                       THEN IF prefix = Bits4 THEN 1
                            ELSE IF prefix = Bits4 - 1 THEN 2
                            ELSE addressCount - 2
                       ELSE addressCount
        firstUsable == IF version = 4
                       THEN IF prefix = Bits4 THEN network
                            ELSE IF prefix = Bits4 - 1 THEN network
                            ELSE network + 1
                       ELSE network
        lastUsable == IF version = 4
                      THEN IF prefix = Bits4 THEN network
                           ELSE IF prefix = Bits4 - 1 THEN last
                           ELSE last - 1
                      ELSE last
        texts == [cidr |-> formatCidr(version, network, prefix),
                  network |-> formatAddress(version, network),
                  netmask |-> formatAddress(version, mask),
                  wildcard |-> formatAddress(version, wildcard),
                  lastAddress |-> formatAddress(version, last),
                  firstUsable |-> formatAddress(version, firstUsable),
                  lastUsable |-> formatAddress(version, lastUsable)]
    IN IF \E f \in DOMAIN texts : ~texts[f].ok THEN Err
       ELSE Ok([version |-> version,
                bits |-> bits,
                cidr |-> texts.cidr.val,
                network |-> texts.network.val,
                prefix |-> prefix,
                netmask |-> texts.netmask.val,
                wildcard |-> texts.wildcard.val,
                \* `undefined` for IPv6 is the empty sequence
                broadcast |-> IF version = 4 THEN <<texts.lastAddress.val>> ELSE <<>>,
                lastAddress |-> texts.lastAddress.val,
                addressCount |-> addressCount,
                usableCount |-> usableCount,
                firstUsable |-> texts.firstUsable.val,
                lastUsable |-> texts.lastUsable.val])

(* -------------------------- set-operations.ts -------------------------- *)
\* cidr.network + ((1n << BigInt(bits - prefix)) - 1n)
LastAddr(c) == c.network + (Pow2(c.bits - c.prefix) - 1)

\* containsIp: the address is parsed in the block's version; a text that
\* does not parse is in no block (the catch clause)
containsIp(cidr, ip) ==
  LET ipInt == IF cidr.version = 6 THEN ipv6ToBigInt(ip) ELSE ipv4ToBigInt(ip)
  IN IF ~ipInt.ok THEN FALSE
     ELSE ipInt.val >= cidr.network /\ ipInt.val <= LastAddr(cidr)

\* mutant: the version / width comparison is missing
containsPrefix_NoVersionCheck(a, b) ==
  IF a.prefix > b.prefix THEN FALSE
  ELSE b.network >= a.network /\ LastAddr(b) <= LastAddr(a)

\* mutant: b must end strictly before a ends
containsPrefix_LastExclusive(a, b) ==
  IF a.version # b.version \/ a.bits # b.bits THEN FALSE
  ELSE IF a.prefix > b.prefix THEN FALSE
  ELSE b.network >= a.network /\ LastAddr(b) < LastAddr(a)

containsPrefix(a, b) ==
  IF a.version # b.version \/ a.bits # b.bits THEN FALSE
  ELSE IF a.prefix > b.prefix THEN FALSE
  ELSE b.network >= a.network /\ LastAddr(b) <= LastAddr(a)

areAdjacent(a, b) ==
  IF a.version # b.version \/ a.bits # b.bits THEN FALSE
  ELSE IF a.prefix # b.prefix THEN FALSE
  ELSE LET size == Pow2(a.bits - a.prefix)
           aLast == a.network + size - 1
           bLast == b.network + size - 1
       IN aLast + 1 = b.network \/ bLast + 1 = a.network

canMerge(a, b) ==
  IF a.version # b.version \/ a.bits # b.bits THEN FALSE
  ELSE IF a.prefix # b.prefix THEN FALSE
  ELSE IF a.prefix = 0 THEN FALSE
  ELSE LET parentPrefix == a.prefix - 1
           parentMask == Pow2(a.bits - parentPrefix) - 1
           \* ~parentMask & ((1n << BigInt(a.bits)) - 1n)
           parentMaskBits == (Pow2(a.bits) - 1) - parentMask
           aParent == BitAnd(a.network, parentMaskBits)
           bParent == BitAnd(b.network, parentMaskBits)
       IN aParent = bParent

\* detectOverlaps counting two blocks that only touch as overlapping
detectOverlaps_Touching(cidrs) ==
  LET pairs == {<<i, j>> \in (1..Len(cidrs)) \X (1..Len(cidrs)) : i < j}
      hasOverlap(a, b) ==
        /\ a.version = b.version /\ a.bits = b.bits
        /\ ~(LastAddr(a) + 1 < b.network \/ LastAddr(b) + 1 < a.network)
      type(a, b) ==
        IF a.network = b.network /\ a.prefix = b.prefix THEN "IDENTICAL"
        ELSE IF containsPrefix(a, b) THEN "A_CONTAINS_B"
        ELSE IF containsPrefix(b, a) THEN "B_CONTAINS_A"
        ELSE "PARTIAL"
      overlaps == {[i |-> x[1], j |-> x[2], a |-> cidrs[x[1]], b |-> cidrs[x[2]],
                    type |-> type(cidrs[x[1]], cidrs[x[2]])] :
                     x \in {y \in pairs : hasOverlap(cidrs[y[1]], cidrs[y[2]])}}
  IN [hasOverlap |-> overlaps # {}, overlaps |-> overlaps]

\* the entries detectOverlaps pushes, each with the index pair (i, j) of the
\* loop iteration that pushed it
detectOverlaps(cidrs) ==
  LET pairs == {<<i, j>> \in (1..Len(cidrs)) \X (1..Len(cidrs)) : i < j}
      hasOverlap(a, b) ==
        /\ a.version = b.version /\ a.bits = b.bits
        /\ ~(LastAddr(a) < b.network \/ LastAddr(b) < a.network)
      type(a, b) ==
        IF a.network = b.network /\ a.prefix = b.prefix THEN "IDENTICAL"
        ELSE IF containsPrefix(a, b) THEN "A_CONTAINS_B"
        ELSE IF containsPrefix(b, a) THEN "B_CONTAINS_A"
        ELSE "PARTIAL"
      overlaps == {[i |-> x[1], j |-> x[2], a |-> cidrs[x[1]], b |-> cidrs[x[2]],
                    type |-> type(cidrs[x[1]], cidrs[x[2]])] :
                     x \in {y \in pairs : hasOverlap(cidrs[y[1]], cidrs[y[2]])}}
  IN [hasOverlap |-> overlaps # {}, overlaps |-> overlaps]

\* intersectPrefixes returning the containing block instead of the contained
intersectPrefixes_Outer(a, b) ==
  IF a.version # b.version \/ a.bits # b.bits THEN Ok(<<>>)
  ELSE IF LastAddr(a) < b.network \/ LastAddr(b) < a.network THEN Ok(<<>>)
  ELSE LET intStart == IF a.network > b.network THEN a.network ELSE b.network
           longerPrefix == IF a.prefix > b.prefix THEN a.prefix ELSE b.prefix
       IN IF containsPrefix(a, b) THEN Ok(<<a>>)
          ELSE IF containsPrefix(b, a) THEN Ok(<<b>>)
          ELSE Ok(<<[version |-> a.version, bits |-> a.bits,
                     network |-> intStart, prefix |-> longerPrefix]>>)

\* Ok(<<>>) is null
intersectPrefixes(a, b) ==
  IF a.version # b.version \/ a.bits # b.bits THEN Ok(<<>>)
  ELSE IF LastAddr(a) < b.network \/ LastAddr(b) < a.network THEN Ok(<<>>)
  ELSE LET intStart == IF a.network > b.network THEN a.network ELSE b.network
           longerPrefix == IF a.prefix > b.prefix THEN a.prefix ELSE b.prefix
       IN IF containsPrefix(a, b) THEN Ok(<<b>>)
          ELSE IF containsPrefix(b, a) THEN Ok(<<a>>)
          ELSE Ok(<<[version |-> a.version, bits |-> a.bits,
                     network |-> intStart, prefix |-> longerPrefix]>>)

\* differencePrefixes testing the containment the wrong way round
differencePrefixes_Swapped(a, b) ==
  IF a.version # b.version \/ a.bits # b.bits THEN Ok(<<a>>)
  ELSE IF containsPrefix(a, b) THEN Ok(<<>>)
  ELSE Ok(<<a>>)

differencePrefixes(a, b) ==
  IF a.version # b.version \/ a.bits # b.bits THEN Ok(<<a>>)
  ELSE IF containsPrefix(b, a) THEN Ok(<<>>)
  ELSE IF ~containsPrefix(a, b)
            /\ (LastAddr(a) < b.network \/ LastAddr(b) < a.network)
       THEN Ok(<<a>>)
       ELSE Ok(<<a>>)

(* ------------------------- transformations.ts -------------------------- *)
splitBinary(cidr) ==
  IF cidr.prefix >= cidr.bits THEN Err
  ELSE LET childPrefix == cidr.prefix + 1
           childSize == Pow2(cidr.bits - childPrefix)
       IN Ok(<<[version |-> cidr.version, bits |-> cidr.bits,
                network |-> cidr.network, prefix |-> childPrefix],
               [version |-> cidr.version, bits |-> cidr.bits,
                network |-> cidr.network + childSize, prefix |-> childPrefix]>>)

\* (n & (n - 1)) === 0 for a positive int32
IsPowerOfTwo(n) == \E k \in 0..(ShiftBits - 1) : n = Pow2(k)

\* splitIntoN numbering the blocks from 1 instead of 0
splitIntoN_FromOne(cidr, n) ==
  IF n <= 0 THEN Err
  ELSE IF ~IsPowerOfTwo(n) THEN Err
  ELSE LET bitsNeeded == CeilLog2(n)
           newPrefix == cidr.prefix + bitsNeeded
       IN IF newPrefix > cidr.bits THEN Err
          ELSE LET subnetSize == Pow2(cidr.bits - newPrefix)
               IN Ok([i \in 1..n |->
                        [version |-> cidr.version, bits |-> cidr.bits,
                         network |-> cidr.network + i * subnetSize,
                         prefix |-> newPrefix]])

splitIntoN(cidr, n) ==
  IF n <= 0 THEN Err
  ELSE IF ~IsPowerOfTwo(n) THEN Err
  ELSE LET bitsNeeded == CeilLog2(n)
           newPrefix == cidr.prefix + bitsNeeded
       IN IF newPrefix > cidr.bits THEN Err
          ELSE LET subnetSize == Pow2(cidr.bits - newPrefix)
               IN Ok([i \in 1..n |->
                        [version |-> cidr.version, bits |-> cidr.bits,
                         network |-> cidr.network + (i - 1) * subnetSize,
                         prefix |-> newPrefix]])

\* the host-bit count both splitByHostCount and the VLSM allocator derive
\* from a host count
HostBits(version, requiredHosts) ==
  IF version = 4
  THEN IF requiredHosts = 1 THEN 0
       ELSE IF requiredHosts = 2 THEN 1
       ELSE CeilLog2(requiredHosts + 2)
  ELSE CeilLog2(requiredHosts)

splitByHostCount(cidr, requiredHosts) ==
  IF requiredHosts <= 0 THEN Err
  ELSE LET newPrefix == cidr.bits - HostBits(cidr.version, requiredHosts)
       IN IF newPrefix < cidr.prefix THEN Err
          ELSE LET numSubnets == ShiftLeft1(newPrefix - cidr.prefix)
                   subnets == splitIntoN(cidr, numSubnets)
               IN IF ~subnets.ok THEN Err
                  ELSE Ok([prefix |-> newPrefix, subnets |-> subnets.val])

\* mutant: only (left, right) is accepted, not (right, left)
mergeSiblings_Ordered(a, b) ==
  IF a.version # b.version \/ a.bits # b.bits THEN Err
  ELSE IF a.prefix # b.prefix THEN Err
  ELSE IF a.prefix = 0 THEN Err
  ELSE LET parentPrefix == a.prefix - 1
           parentMask == maskFromPrefix(parentPrefix, a.bits)
           aParent == BitAnd(a.network, parentMask)
           bParent == BitAnd(b.network, parentMask)
       IN IF aParent # bParent THEN Err
          ELSE LET halves == splitBinary([version |-> a.version, bits |-> a.bits,
                                          network |-> aParent, prefix |-> parentPrefix])
                   left == halves.val[1]
                   right == halves.val[2]
                   isValid == a.network = left.network /\ b.network = right.network
               IN IF ~halves.ok \/ ~isValid THEN Err
                  ELSE Ok([version |-> a.version, bits |-> a.bits,
                           network |-> aParent, prefix |-> parentPrefix])

\* mergeSiblings accepting any two adjacent blocks of one size
mergeSiblings_Adjacent(a, b) ==
  IF a.version # b.version \/ a.bits # b.bits THEN Err
  ELSE IF a.prefix # b.prefix THEN Err
  ELSE IF a.prefix = 0 THEN Err
  ELSE LET size == Pow2(a.bits - a.prefix)
           low == IF a.network < b.network THEN a.network ELSE b.network
       IN IF a.network + size # b.network /\ b.network + size # a.network THEN Err
          ELSE Ok([version |-> a.version, bits |-> a.bits,
                   network |-> BitAnd(low, maskFromPrefix(a.prefix - 1, a.bits)),
                   prefix |-> a.prefix - 1])

mergeSiblings(a, b) ==
  IF a.version # b.version \/ a.bits # b.bits THEN Err
  ELSE IF a.prefix # b.prefix THEN Err
  ELSE IF a.prefix = 0 THEN Err
  ELSE LET parentPrefix == a.prefix - 1
           parentMask == maskFromPrefix(parentPrefix, a.bits)
           aParent == BitAnd(a.network, parentMask)
           bParent == BitAnd(b.network, parentMask)
       IN IF aParent # bParent THEN Err
          ELSE LET halves == splitBinary([version |-> a.version, bits |-> a.bits,
                                          network |-> aParent, prefix |-> parentPrefix])
                   left == halves.val[1]
                   right == halves.val[2]
                   isValid == \/ (a.network = left.network /\ b.network = right.network)
                              \/ (a.network = right.network /\ b.network = left.network)
               IN IF ~halves.ok \/ ~isValid THEN Err
                  ELSE Ok([version |-> a.version, bits |-> a.bits,
                           network |-> aParent, prefix |-> parentPrefix])

RECURSIVE InsertByNetwork(_, _)
\* x placed after every element whose network is not greater (stable)
InsertByNetwork(sorted, x) ==
  IF sorted = <<>> THEN <<x>>
  ELSE IF Head(sorted).network <= x.network
       THEN <<Head(sorted)>> \o InsertByNetwork(Tail(sorted), x)
       ELSE <<x>> \o sorted

RECURSIVE SortByNetwork(_, _)
\* [...cidrs].sort(by network), Array.prototype.sort being stable
SortByNetwork(cidrs, sorted) ==
  IF cidrs = <<>> THEN sorted
  ELSE SortByNetwork(Tail(cidrs), InsertByNetwork(sorted, Head(cidrs)))

RECURSIVE MergePass_SkipNext(_, _, _)
\* mutant: the scan steps over two elements also when they did not merge
MergePass_SkipNext(current, i, next) ==
  IF i > Len(current) THEN <<next, FALSE>>
  ELSE IF i + 1 <= Len(current) /\ mergeSiblings(current[i], current[i + 1]).ok
       THEN <<MergePass_SkipNext(current, i + 2,
                                 Append(next, mergeSiblings(current[i], current[i + 1]).val))[1],
              TRUE>>
       ELSE MergePass_SkipNext(current, i + 2, Append(next, current[i]))

RECURSIVE MergePass(_, _, _)
\* one left-to-right scan of the inner while loop: <<next, changed>>
MergePass(current, i, next) ==
  IF i > Len(current) THEN <<next, FALSE>>
  ELSE IF i + 1 <= Len(current) /\ mergeSiblings(current[i], current[i + 1]).ok
       THEN <<MergePass(current, i + 2,
                        Append(next, mergeSiblings(current[i], current[i + 1]).val))[1],
              TRUE>>
       ELSE MergePass(current, i + 1, Append(next, current[i]))

RECURSIVE MergeLoop(_)
\* while (changed) of summarizePrefixes
MergeLoop(current) ==
  LET pass == MergePass(current, 1, <<>>)
  IN IF pass[2] THEN MergeLoop(pass[1]) ELSE pass[1]

summarizePrefixes(cidrs) ==
  IF Len(cidrs) = 0 THEN Ok(<<>>)
  ELSE IF Len(cidrs) = 1 THEN Ok(cidrs)
  ELSE IF \E i \in 1..Len(cidrs) :
            cidrs[i].version # cidrs[1].version \/ cidrs[i].bits # cidrs[1].bits
       THEN Err
  ELSE Ok(MergeLoop(SortByNetwork(cidrs, <<>>)))

\* min / max of a non-empty set of integers
SetMin(S) == CHOOSE x \in S : \A y \in S : x <= y
SetMax(S) == CHOOSE x \in S : \A y \in S : x >= y

minimalCoveringSupernet(cidrs) ==
  IF Len(cidrs) = 0 THEN Err
  ELSE IF Len(cidrs) = 1 THEN Ok(cidrs[1])
  ELSE IF \E i \in 1..Len(cidrs) :
            cidrs[i].version # cidrs[1].version \/ cidrs[i].bits # cidrs[1].bits
       THEN Err
  ELSE LET version == cidrs[1].version
           bits == cidrs[1].bits
           minNet == SetMin({cidrs[i].network : i \in 1..Len(cidrs)})
           maxNet == SetMax({cidrs[1].network} \cup {LastAddr(cidrs[i]) : i \in 1..Len(cidrs)})
           \* for (p = 0; p <= bits; p++) ... break on the first p that agrees
           agree == {p \in 0..bits : BitAnd(minNet, maskFromPrefix(p, bits))
                                       = BitAnd(maxNet, maskFromPrefix(p, bits))}
           prefix == IF agree = {} THEN bits ELSE SetMin(agree)
       IN Ok([version |-> version, bits |-> bits,
              network |-> BitAnd(minNet, maskFromPrefix(prefix, bits)),
              prefix |-> prefix])

(* ------------------------------- vlsm.ts ------------------------------- *)
\* A VlsmRequest is a record with a name and, optionally, the fields
\* requiredHosts and requiredPrefix (`!= null` is membership in DOMAIN).
Has(req, field) == field \in DOMAIN req

\* getSize of sortRequestsByStrategy
getSize(req, version) ==
  IF Has(req, "requiredPrefix") THEN req.requiredPrefix
  ELSE IF Has(req, "requiredHosts")
       THEN (IF version = 4 THEN Bits4 ELSE Bits6) - HostBits(version, req.requiredHosts)
       ELSE 0

RECURSIVE InsertRequest_Unstable(_, _, _, _)
\* mutant: x placed before the elements it compares equal to
InsertRequest_Unstable(sorted, x, version, descending) ==
  IF sorted = <<>> THEN <<x>>
  ELSE LET cmp == IF descending
                  THEN getSize(x, version) - getSize(Head(sorted), version)
                  ELSE getSize(Head(sorted), version) - getSize(x, version)
       IN IF cmp < 0
          THEN <<Head(sorted)>> \o InsertRequest_Unstable(Tail(sorted), x, version, descending)
          ELSE <<x>> \o sorted

RECURSIVE InsertRequest(_, _, _, _)
\* x placed after every element the comparator does not order after it:
\* what a stable sort does with compare(e, x) <= 0
InsertRequest(sorted, x, version, descending) ==
  IF sorted = <<>> THEN <<x>>
  ELSE LET cmp == IF descending
                  THEN getSize(x, version) - getSize(Head(sorted), version)
                  ELSE getSize(Head(sorted), version) - getSize(x, version)
       IN IF cmp <= 0
          THEN <<Head(sorted)>> \o InsertRequest(Tail(sorted), x, version, descending)
          ELSE <<x>> \o sorted

RECURSIVE StableSort(_, _, _, _)
StableSort(requests, sorted, version, descending) ==
  IF requests = <<>> THEN sorted
  ELSE StableSort(Tail(requests),
                  InsertRequest(sorted, Head(requests), version, descending),
                  version, descending)

sortRequestsByStrategy(requests, strategy, version) ==
  IF strategy = "LARGEST_FIRST" THEN StableSort(requests, <<>>, version, FALSE)
  ELSE IF strategy = "SMALLEST_FIRST" THEN StableSort(requests, <<>>, version, TRUE)
  ELSE IF strategy \in {"PACKED_LOW", "PACKED_HIGH", "BALANCED"}
       THEN StableSort(requests, <<>>, version, FALSE)
  ELSE requests

\* mutant: a request for a block as large as the parent is refused
allocateOne_StrictlySmaller(parent, request, allocated, version) ==
  IF ~Has(request, "requiredPrefix") /\ ~Has(request, "requiredHosts") THEN Err
  ELSE
    LET requiredPrefix == IF Has(request, "requiredPrefix") THEN request.requiredPrefix
                          ELSE parent.bits - HostBits(version, request.requiredHosts)
    IN IF requiredPrefix <= parent.prefix THEN Ok(<<>>)
       ELSE
         LET prefixDiff == requiredPrefix - parent.prefix
             numCandidates == ShiftLeft1(prefixDiff)
             candidates == splitIntoN(parent, numCandidates)
             conflicts(candidate) ==
               \E k \in 1..Len(allocated) :
                 \/ containsPrefix(candidate, allocated[k])
                 \/ containsPrefix(allocated[k], candidate)
                 \/ candidate.network = allocated[k].network
             free == {i \in 1..Len(candidates.val) : ~conflicts(candidates.val[i])}
         IN IF ~candidates.ok THEN Err
            ELSE IF free = {} THEN Ok(<<>>)
            ELSE Ok(<<candidates.val[SetMin(free)]>>)

\* mutant: a candidate conflicts only with a block that starts at the same
\* address
allocateOne_NetworkOnly(parent, request, allocated, version) ==
  IF ~Has(request, "requiredPrefix") /\ ~Has(request, "requiredHosts") THEN Err
  ELSE
    LET requiredPrefix == IF Has(request, "requiredPrefix") THEN request.requiredPrefix
                          ELSE parent.bits - HostBits(version, request.requiredHosts)
    IN IF requiredPrefix < parent.prefix THEN Ok(<<>>)
       ELSE
         LET prefixDiff == requiredPrefix - parent.prefix
             numCandidates == ShiftLeft1(prefixDiff)
             candidates == splitIntoN(parent, numCandidates)
             conflicts(candidate) ==
               \E k \in 1..Len(allocated) : candidate.network = allocated[k].network
             free == {i \in 1..Len(candidates.val) : ~conflicts(candidates.val[i])}
         IN IF ~candidates.ok THEN Err
            ELSE IF free = {} THEN Ok(<<>>)
            ELSE Ok(<<candidates.val[SetMin(free)]>>)

\* Err when it throws, Ok(<<>>) for null, Ok(<<cidr>>) for a block
allocateOne(parent, request, allocated, version) ==
  IF ~Has(request, "requiredPrefix") /\ ~Has(request, "requiredHosts") THEN Err
  ELSE
    LET requiredPrefix == IF Has(request, "requiredPrefix") THEN request.requiredPrefix
                          ELSE parent.bits - HostBits(version, request.requiredHosts)
    IN IF requiredPrefix < parent.prefix THEN Ok(<<>>)
       ELSE
         LET prefixDiff == requiredPrefix - parent.prefix
             numCandidates == ShiftLeft1(prefixDiff)
             candidates == splitIntoN(parent, numCandidates)
             conflicts(candidate) ==
               \E k \in 1..Len(allocated) :
                 \/ containsPrefix(candidate, allocated[k])
                 \/ containsPrefix(allocated[k], candidate)
                 \/ candidate.network = allocated[k].network
             free == {i \in 1..Len(candidates.val) : ~conflicts(candidates.val[i])}
         IN IF ~candidates.ok THEN Err
            ELSE IF free = {} THEN Ok(<<>>)
            ELSE Ok(<<candidates.val[SetMin(free)]>>)

\* the caller's requests array after allocateVlsm: sort() works in place,
\* on the copy [...requests] that sortRequestsByStrategy is handed
RequestsAfter(requests, strategy, version) ==
  LET copy == requests
      sorted == sortRequestsByStrategy(copy, strategy, version)
  IN requests

RECURSIVE AllocateLoop(_, _, _, _)
\* for (const req of sortedRequests): Err as soon as allocateOne throws
AllocateLoop(parent, sortedRequests, allocations, allocated) ==
  IF sortedRequests = <<>> THEN Ok(allocations)
  ELSE LET req == Head(sortedRequests)
           allocation == allocateOne(parent, req, allocated, parent.version)
       IN IF ~allocation.ok THEN Err
          ELSE IF allocation.val # <<>>
               THEN AllocateLoop(parent, Tail(sortedRequests),
                                 Append(allocations,
                                        [name |-> req.name, cidr |-> allocation.val[1],
                                         allocated |-> TRUE]),
                                 Append(allocated, allocation.val[1]))
               ELSE AllocateLoop(parent, Tail(sortedRequests),
                                 Append(allocations,
                                        [name |-> req.name, cidr |-> parent,
                                         allocated |-> FALSE]),
                                 allocated)

\* allocateVlsm without the validation of the reserved blocks
allocateVlsm_NoValidation(parent, requests, strategy, reserved) ==
  AllocateLoop(parent,
               sortRequestsByStrategy(requests, strategy, parent.version),
               <<>>, reserved)

allocateVlsm(parent, requests, strategy, reserved) ==
  IF \E k \in 1..Len(reserved) : ~containsPrefix(parent, reserved[k]) THEN Err
  ELSE AllocateLoop(parent,
                    sortRequestsByStrategy(requests, strategy, parent.version),
                    <<>>, reserved)

(* ------------------------------ search.ts ------------------------------ *)
\* mutant: the bit the parent gives up is not cleared
getParent_KeepNetwork(cidr) ==
  IF cidr.prefix = 0 THEN Ok(<<>>)
  ELSE Ok(<<[version |-> cidr.version, bits |-> cidr.bits,
             network |-> cidr.network, prefix |-> cidr.prefix - 1]>>)

getParent(cidr) ==
  IF cidr.prefix = 0 THEN Ok(<<>>)
  ELSE LET prefix == cidr.prefix - 1
           mask == Pow2(cidr.bits - prefix) - 1
           \* cidr.network & ~mask
           parentNetwork == BitAnd(cidr.network, Pow2(cidr.bits) - 1 - mask)
       IN Ok(<<[version |-> cidr.version, bits |-> cidr.bits,
                network |-> parentNetwork, prefix |-> prefix]>>)

getChildren(cidr) ==
  IF cidr.prefix >= cidr.bits THEN Ok(<<>>)
  ELSE LET childPrefix == cidr.prefix + 1
           halfSize == Pow2(cidr.bits - childPrefix)
       IN Ok(<<[version |-> cidr.version, bits |-> cidr.bits,
                network |-> cidr.network, prefix |-> childPrefix],
               [version |-> cidr.version, bits |-> cidr.bits,
                network |-> cidr.network + halfSize, prefix |-> childPrefix]>>)

(* ------------------------------ service.ts ----------------------------- *)
RECURSIVE LpmLoop(_, _, _, _)
\* for (const cidr of cidrs): a block replaces the best match when it
\* contains the address and its prefix is strictly longer
LpmLoop(ip, cidrs, bestMatch, bestPrefix) ==
  IF cidrs = <<>> THEN bestMatch
  ELSE LET cidr == Head(cidrs)
       IN IF containsIp(cidr, ip) /\ cidr.prefix > bestPrefix
          THEN LpmLoop(ip, Tail(cidrs), <<cidr>>, cidr.prefix)
          ELSE LpmLoop(ip, Tail(cidrs), bestMatch, bestPrefix)

\* mutant: the first block that contains the address is returned
longestPrefixMatch_FirstMatch(ip, cidrs) ==
  LET hits == {i \in 1..Len(cidrs) : containsIp(cidrs[i], ip)}
  IN IF hits = {} THEN Ok(<<>>)
     ELSE Ok(<<cidrs[CHOOSE i \in hits : \A j \in hits : i <= j]>>)

longestPrefixMatch(ip, cidrs) == Ok(LpmLoop(ip, cidrs, <<>>, -1))

(* ----------------------- SubnetTreeCalculator.tsx ---------------------- *)
\* a SubnetNode without children; children is <<>> (undefined) or a pair
Node(id, version, bits, network, prefix, path) ==
  [id |-> id, version |-> version, bits |-> bits, network |-> network,
   prefix |-> prefix, path |-> path, children |-> <<>>]

RECURSIVE findNodeById(_, _)
\* <<>> for null
findNodeById(node, id) ==
  IF node.id = id THEN <<node>>
  ELSE IF node.children = <<>> THEN <<>>
  ELSE LET left == findNodeById(node.children[1], id)
       IN IF left # <<>> THEN left ELSE findNodeById(node.children[2], id)

RECURSIVE collectLeaves(_)
collectLeaves(node) ==
  IF node.children = <<>> THEN <<node>>
  ELSE collectLeaves(node.children[1]) \o collectLeaves(node.children[2])

\* mutant: a node at the depth limit may still be split
canSplit_AtLimit(node, rootPrefix, depth) ==
  IF depth < 0 THEN FALSE
  ELSE IF node.prefix >= node.bits THEN FALSE
  ELSE LET relativeDepth == node.prefix - rootPrefix
       IN relativeDepth <= depth

canSplit(node, rootPrefix, depth) ==
  IF depth < 0 THEN FALSE
  ELSE IF node.prefix >= node.bits THEN FALSE
  ELSE LET relativeDepth == node.prefix - rootPrefix
       IN relativeDepth < depth

RECURSIVE toggleSplit(_, _, _, _, _)
\* nextId is the value of idCounter: makeId() gives the left child nextId
\* and the right child nextId + 1
toggleSplit(node, targetId, nextId, rootPrefix, depth) ==
  IF node.id = targetId
  THEN IF node.children # <<>> THEN [node EXCEPT !.children = <<>>]
       ELSE IF ~canSplit(node, rootPrefix, depth) THEN node
       ELSE LET childPrefix == node.prefix + 1
                childSize == Pow2(node.bits - childPrefix)
                left == Node(nextId, node.version, node.bits, node.network,
                             childPrefix, Append(node.path, 0))
                right == Node(nextId + 1, node.version, node.bits,
                              node.network + childSize, childPrefix,
                              Append(node.path, 1))
            IN [node EXCEPT !.children = <<left, right>>]
  ELSE IF node.children = <<>> THEN node
  ELSE LET na == toggleSplit(node.children[1], targetId, nextId, rootPrefix, depth)
           nb == toggleSplit(node.children[2], targetId, nextId, rootPrefix, depth)
       IN [node EXCEPT !.children = <<na, nb>>]

\* the ids makeId handed out during toggleSplit: two when a leaf was split
IdsMade(node, targetId, rootPrefix, depth) ==
  LET found == findNodeById(node, targetId)
  IN IF found # <<>> /\ found[1].children = <<>> /\ canSplit(found[1], rootPrefix, depth)
     THEN 2 ELSE 0

(* ------------------------------ inputs --------------------------------- *)
Versions == {4, 6}

Addrs(version) == 0..(Pow2(BitsOf(version)) - 1)

\* every canonical (host-bit-zeroed) prefix of one version
Cidrs(version) ==
  {Cidr(version, n * Pow2(BitsOf(version) - p), p) :
     <<n, p>> \in {x \in Addrs(version) \X (0..BitsOf(version)) : x[1] < Pow2(x[2])}}

AllCidrs == Cidrs(4) \cup Cidrs(6)

\* sequences over S of length 0..n
SeqsUpTo(S, n) == UNION {[1..k -> S] : k \in 0..n}

\* dotted texts: the right number of octets, one too few, or an octet out of range
V4Texts ==
  {V4Text(o) : o \in [1..Bits4 -> {0, 1}]}
  \cup {V4Text(o) : o \in [1..(Bits4 - 1) -> {1}]}
  \cup {V4Text([i \in 1..Bits4 |-> 2])}

\* colon texts: full form, every placement of one '::' (also one that stands
\* for no hextet, and non-canonical ones), two '::', too many hextets
V6Texts ==
  {V6Text(<<h>>) : h \in [1..Bits6 -> {0, 1}]}
  \cup {V6Text(<<l, r>>) :
          <<l, r>> \in {x \in SeqsUpTo({0, 1}, Bits6) \X SeqsUpTo({0, 1}, Bits6) :
                          Len(x[1]) + Len(x[2]) <= Bits6}}
  \cup {V6Text(<<<<1>>, <<>>, <<1>>>>), V6Text(<<[i \in 1..Bits6 |-> 1], <<1>>>>),
        V6Text(<<[i \in 1..Bits6 |-> 2]>>)}

\* the canonical text of every address, as formatAddress writes it
AddrText == [v \in Versions |-> [n \in Addrs(v) |-> formatAddress(v, n).val]]

CidrTexts ==
  {CidrText(a, p) : <<a, p>> \in V4Texts \X (0..(Bits4 + 1))}
  \cup {CidrText(a, p) : <<a, p>> \in V6Texts \X (0..(Bits6 + 1))}

\* (network, prefix) arguments of subnetMeta: any address, any prefix up to
\* one past the width
MetaArgs(version) == Addrs(version) \X (0..(BitsOf(version) + 1))

\* lists for summarizePrefixes: the seven blocks of the lowest subtree of
\* depth two of each version, so that siblings, nested blocks and
\* duplicates all occur in lists of up to MaxList elements
MaxList == 3
SumUniverse(version) ==
  {c \in Cidrs(version) : c.prefix >= c.bits - 2 /\ c.network < Pow2(2)}
SumLists ==
  SeqsUpTo(SumUniverse(4), MaxList) \cup SeqsUpTo(SumUniverse(6), MaxList)
  \cup {<<a, b>> : <<a, b>> \in SumUniverse(4) \X SumUniverse(6)}

\* lists for detectOverlaps: nested, identical, adjacent and distant blocks
\* of one version, and two blocks of the other
OverlapLists ==
  SeqsUpTo(SumUniverse(4) \cup {Cidr(6, 0, Bits6), Cidr(6, 0, Bits6 - 1)}, MaxList)

\* second arguments of differencePrefixes: the whole space and the blocks of
\* its lowest corner, of both versions
DiffBlocks ==
  SumUniverse(4) \cup SumUniverse(6) \cup {Cidr(4, 0, 0), Cidr(6, 0, 0)}

\* lists for minimalCoveringSupernet: up to two prefixes of any kind, and
\* three of one version
SupernetLists ==
  SeqsUpTo(AllCidrs, 2)
  \cup {<<a, b, c>> : <<a, b, c>> \in SumUniverse(4) \X Cidrs(4) \X SumUniverse(4)}

\* VLSM requests: an explicit prefix from 0 to one past the width, a host
\* count, or neither
MaxReqs == 2
HostCounts == {1, 2, 3}
RequestSizes(version) ==
  {[requiredPrefix |-> p] : p \in 0..(BitsOf(version) + 1)}
  \cup {[requiredHosts |-> h] : h \in HostCounts}
Named(size, name) ==
  IF Has(size, "requiredPrefix")
  THEN [name |-> name, requiredPrefix |-> size.requiredPrefix]
  ELSE [name |-> name, requiredHosts |-> size.requiredHosts]
\* request lists; the name of a request is its position in the input
RequestLists(version) ==
  {[i \in 1..Len(sizes) |-> Named(sizes[i], i)] :
     sizes \in SeqsUpTo(RequestSizes(version), MaxReqs)}
  \cup {<<[name |-> 1]>>}

\* batches of three explicit prefixes at most two levels below the parent
PackLists(parent) ==
  LET deepest == IF parent.prefix + 2 > parent.bits THEN parent.bits
                 ELSE parent.prefix + 2
  IN {[i \in 1..3 |-> [name |-> i, requiredPrefix |-> p[i]]] :
        p \in [1..3 -> parent.prefix..deepest]}

Strategies == {"LARGEST_FIRST", "SMALLEST_FIRST", "PACKED_LOW", "PACKED_HIGH", "BALANCED"}

\* parents: the first block of every prefix length and the last block of
\* the two shortest (IPv4); the first block of the two shortest and the two
\* longest prefix lengths (IPv6)
VlsmParents ==
  {c \in Cidrs(4) : c.network = 0 \/ (c.prefix <= 2 /\ LastAddr(c) = Pow2(Bits4) - 1)}
  \cup {c \in Cidrs(6) : c.network = 0 /\ (c.prefix <= 1 \/ c.prefix >= Bits6 - 1)}

\* the first or last block `depth` levels below parent (or as deep as it goes)
ResBlock(parent, depth, last) ==
  LET d == IF parent.bits - parent.prefix < depth THEN parent.bits - parent.prefix
           ELSE depth
      size == Pow2(parent.bits - parent.prefix - d)
  IN [version |-> parent.version, bits |-> parent.bits,
      network |-> parent.network + (IF last THEN (Pow2(d) - 1) * size ELSE 0),
      prefix |-> parent.prefix + d]

\* a block parent does not contain: its own parent block, or, for a /0, the
\* /0 of the other version
Outside(parent) ==
  IF parent.prefix = 0 THEN Cidr(IF parent.version = 4 THEN 6 ELSE 4, 0, 0)
  ELSE [version |-> parent.version, bits |-> parent.bits,
        network |-> BitAnd(parent.network, maskFromPrefix(parent.prefix - 1, parent.bits)),
        prefix |-> parent.prefix - 1]

ReservedLists(parent) ==
  {<<>>, <<ResBlock(parent, 2, FALSE)>>, <<ResBlock(parent, 1, TRUE)>>,
   <<ResBlock(parent, 1, TRUE), Outside(parent)>>}

\* lookup tables: blocks of both versions, nested and disjoint
LpmBlocks ==
  {Cidr(4, 0, 0), Cidr(4, 0, Bits4 - 1), Cidr(4, 2, Bits4 - 1),
   Cidr(4, 0, Bits4), Cidr(4, 3, Bits4),
   Cidr(6, 0, 0), Cidr(6, 0, Bits6 - 1)}

LpmLists == SeqsUpTo(LpmBlocks, MaxList)

\* addresses to look up: canonical texts of both versions, and texts that
\* do not parse
LpmTexts ==
  {AddrText[4][n] : n \in 0..3} \cup {AddrText[4][Pow2(Bits4) - 1]}
  \cup {AddrText[6][n] : n \in 0..2}
  \cup {V4Text([i \in 1..Bits4 |-> 2]), V4Text([i \in 1..(Bits4 - 1) |-> 0]),
        V6Text(<<<<1>>, <<>>, <<1>>>>)}

\* base CIDRs typed into the designer: blocks with room for MaxDepth levels
\* and blocks next to the full width, one with host bits set, one IPv6, and
\* one that does not parse
TreeTexts ==
  {CidrText(AddrText[4][0], Bits4 - 3), CidrText(AddrText[4][5], Bits4 - 2),
   CidrText(AddrText[4][2], Bits4 - 1), CidrText(AddrText[4][3], Bits4),
   CidrText(AddrText[6][0], Bits6 - 2), CidrText(AddrText[4][0], Bits4 + 1)}

(* ------------------------------ actions -------------------------------- *)
\* no call made, the designer not mounted
Init ==
  /\ op = "idle" /\ args = <<>> /\ res = <<>>
  /\ root = <<>> /\ idCounter = 0 /\ maxDepth = 0

CallParseCidr ==
  /\ op = "idle"
  /\ UNCHANGED tree
  /\ \E s \in CidrTexts :
       /\ op' = "parseCidr"
       /\ args' = [input |-> s]
       /\ res' = parseCidr(s)

CallParseCidrWithNetmask ==
  /\ op = "idle"
  /\ UNCHANGED tree
  /\ \E v \in Versions : \E a, m \in Addrs(v) :
       /\ op' = "parseCidrWithNetmask"
       /\ args' = [address |-> AddrText[v][a], netmask |-> AddrText[v][m]]
       /\ res' = parseCidrWithNetmask(AddrText[v][a], AddrText[v][m])

\* any 128-bit value, and the two values just outside the range
CallBigIntToIpv6 ==
  /\ op = "idle"
  /\ UNCHANGED tree
  /\ \E n \in (0 - 1)..Pow2(Bits6) :
       /\ op' = "bigIntToIpv6"
       /\ args' = [n |-> n]
       /\ res' = bigIntToIpv6(n)

CallRangeToMinimalPrefixes ==
  /\ op = "idle"
  /\ UNCHANGED tree
  /\ \E v \in Versions : \E s, e \in Addrs(v) :
       /\ op' = "rangeToMinimalPrefixes"
       /\ args' = [start |-> AddrText[v][s], end |-> AddrText[v][e]]
       /\ res' = rangeToMinimalPrefixes(AddrText[v][s], AddrText[v][e])

CallSubnetMeta ==
  /\ op = "idle"
  /\ UNCHANGED tree
  /\ \E v \in Versions : \E a \in MetaArgs(v) :
       /\ op' = "subnetMeta"
       /\ args' = [network |-> a[1], prefix |-> a[2], version |-> v, bits |-> BitsOf(v)]
       /\ res' = subnetMeta(a[1], a[2], v, BitsOf(v))

CallSplitBinary ==
  /\ op = "idle"
  /\ UNCHANGED tree
  /\ \E c \in AllCidrs :
       /\ op' = "splitBinary"
       /\ args' = [cidr |-> c]
       /\ res' = splitBinary(c)

CallSplitIntoN ==
  /\ op = "idle"
  /\ UNCHANGED tree
  /\ \E c \in AllCidrs : \E n \in (0 - 1)..Pow2(ShiftBits - 1) :
       /\ op' = "splitIntoN"
       /\ args' = [cidr |-> c, n |-> n]
       /\ res' = splitIntoN(c, n)

CallSplitByHostCount ==
  /\ op = "idle"
  /\ UNCHANGED tree
  /\ \E c \in AllCidrs : \E h \in 0..Pow2(c.bits) :
       /\ op' = "splitByHostCount"
       /\ args' = [cidr |-> c, requiredHosts |-> h]
       /\ res' = splitByHostCount(c, h)

CallMergeSiblings ==
  /\ op = "idle"
  /\ UNCHANGED tree
  /\ \E a, b \in AllCidrs :
       /\ op' = "mergeSiblings"
       /\ args' = [a |-> a, b |-> b]
       /\ res' = mergeSiblings(a, b)

CallSummarizePrefixes ==
  /\ op = "idle"
  /\ UNCHANGED tree
  /\ \E l \in SumLists :
       /\ op' = "summarizePrefixes"
       /\ args' = [cidrs |-> l]
       /\ res' = summarizePrefixes(l)

CallMinimalCoveringSupernet ==
  /\ op = "idle"
  /\ UNCHANGED tree
  /\ \E l \in SupernetLists :
       /\ op' = "minimalCoveringSupernet"
       /\ args' = [cidrs |-> l]
       /\ res' = minimalCoveringSupernet(l)

CallContainsPrefix ==
  /\ op = "idle"
  /\ UNCHANGED tree
  /\ \E a, b \in AllCidrs :
       /\ op' = "containsPrefix"
       /\ args' = [a |-> a, b |-> b]
       /\ res' = Ok(containsPrefix(a, b))

CallAllocateVlsm ==
  /\ op = "idle"
  /\ UNCHANGED tree
  /\ \E parent \in VlsmParents :
       \E requests \in RequestLists(parent.version) \cup PackLists(parent) :
         \E strategy \in Strategies :
           \E reserved \in ReservedLists(parent) :
             /\ op' = "allocateVlsm"
             /\ args' = [parent |-> parent,
                         requests |-> RequestsAfter(requests, strategy, parent.version),
                         strategy |-> strategy, reserved |-> reserved]
             /\ res' = allocateVlsm(parent, requests, strategy, reserved)

CallDetectOverlaps ==
  /\ op = "idle"
  /\ UNCHANGED tree
  /\ \E cidrs \in OverlapLists :
       /\ op' = "detectOverlaps"
       /\ args' = [cidrs |-> cidrs]
       /\ res' = Ok(detectOverlaps(cidrs))

CallDifferencePrefixes ==
  /\ op = "idle"
  /\ UNCHANGED tree
  /\ \E a \in AllCidrs : \E b \in DiffBlocks :
       /\ op' = "differencePrefixes"
       /\ args' = [a |-> a, b |-> b]
       /\ res' = differencePrefixes(a, b)

CallIntersectPrefixes ==
  /\ op = "idle"
  /\ UNCHANGED tree
  /\ \E a, b \in AllCidrs :
       /\ op' = "intersectPrefixes"
       /\ args' = [a |-> a, b |-> b]
       /\ res' = intersectPrefixes(a, b)

CallCanMerge ==
  /\ op = "idle"
  /\ UNCHANGED tree
  /\ \E a, b \in AllCidrs :
       /\ op' = "canMerge"
       /\ args' = [a |-> a, b |-> b]
       /\ res' = Ok(canMerge(a, b))

CallLongestPrefixMatch ==
  /\ op = "idle"
  /\ UNCHANGED tree
  /\ \E ip \in LpmTexts :
       \E cidrs \in LpmLists :
         /\ op' = "longestPrefixMatch"
         /\ args' = [ip |-> ip, cidrs |-> cidrs]
         /\ res' = longestPrefixMatch(ip, cidrs)

CallGetParent ==
  /\ op = "idle"
  /\ UNCHANGED tree
  /\ \E c \in AllCidrs :
       /\ op' = "getParent"
       /\ args' = [cidr |-> c]
       /\ res' = getParent(c)

CallGetChildren ==
  /\ op = "idle"
  /\ UNCHANGED tree
  /\ \E c \in AllCidrs :
       /\ op' = "getChildren"
       /\ args' = [cidr |-> c]
       /\ res' = getChildren(c)

\* the component is rendered for the first time: useState(() => parseCidr(
\* initialCidr) ...) builds the root, or throws
Mount ==
  /\ op = "idle"
  /\ root = <<>>
  /\ \E initialCidr \in TreeTexts : \E initialMaxDepth \in 0..MaxDepth :
       LET c == parseCidr(initialCidr)
       IN /\ op' = "mount"
          /\ args' = [initialCidr |-> initialCidr, initialMaxDepth |-> initialMaxDepth]
          /\ res' = c
          /\ IF c.ok
             THEN /\ root' = <<Node(idCounter, c.val.version, c.val.bits,
                                    c.val.network, c.val.prefix, <<>>)>>
                  /\ idCounter' = idCounter + 1
                  /\ maxDepth' = initialMaxDepth
             ELSE UNCHANGED tree

\* setRoot((prevRoot) => toggleSplit(prevRoot, id, makeId, prevRoot.prefix,
\* maxDepth)) for the id of any node the designer has shown
ToggleSplit ==
  /\ root # <<>>
  /\ idCounter + 2 <= MaxIds
  /\ \E targetId \in 0..(idCounter - 1) :
       LET prevRoot == root[1]
           next == toggleSplit(prevRoot, targetId, idCounter, prevRoot.prefix, maxDepth)
       IN /\ op' = "toggleSplit"
          /\ args' = [targetId |-> targetId]
          /\ res' = Ok(next)
          /\ root' = <<next>>
          /\ idCounter' = idCounter + IdsMade(prevRoot, targetId, prevRoot.prefix, maxDepth)
          /\ maxDepth' = maxDepth

\* the codec and the normaliser
NextParse ==
  \/ CallParseCidr
  \/ CallParseCidrWithNetmask
  \/ CallRangeToMinimalPrefixes
  \/ CallBigIntToIpv6
SpecParse == Init /\ [][NextParse]_vars

\* the metadata engine
NextMeta == CallSubnetMeta
SpecMeta == Init /\ [][NextMeta]_vars

\* the transformation engine
NextTransform ==
  \/ CallSplitBinary
  \/ CallSplitIntoN
  \/ CallSplitByHostCount
  \/ CallMergeSiblings
  \/ CallSummarizePrefixes
  \/ CallMinimalCoveringSupernet
SpecTransform == Init /\ [][NextTransform]_vars

\* the set reasoning engine
NextSet ==
  \/ CallContainsPrefix
  \/ CallIntersectPrefixes
  \/ CallDetectOverlaps
  \/ CallDifferencePrefixes
  \/ CallCanMerge
SpecSet == Init /\ [][NextSet]_vars

\* the VLSM allocator
NextVlsm == CallAllocateVlsm
SpecVlsm == Init /\ [][NextVlsm]_vars

\* the lookups of the service
NextLookup ==
  \/ CallLongestPrefixMatch
  \/ CallGetParent
  \/ CallGetChildren
SpecLookup == Init /\ [][NextLookup]_vars

\* the visual designer
NextTree ==
  \/ Mount
  \/ ToggleSplit
SpecTree == Init /\ [][NextTree]_vars

\* every core function
Next ==
  \/ NextParse \/ NextMeta \/ NextTransform \/ NextSet \/ NextVlsm \/ NextLookup
  \/ NextTree
Spec == Init /\ [][Next]_vars

(* ------------------------------- claims -------------------------------- *)
\* the elements of a sequence
Range(seq) == {seq[i] : i \in 1..Len(seq)}

\* network == network & mask(prefix, bits) and 0 <= prefix <= bits, stated
\* on the integers: the network is a multiple of the block size and the
\* block lies inside the address space
Canonical(c) ==
  /\ c.bits = BitsOf(c.version)
  /\ c.prefix >= 0 /\ c.prefix <= c.bits
  /\ c.network >= 0
  /\ c.network % Pow2(c.bits - c.prefix) = 0
  /\ c.network + Pow2(c.bits - c.prefix) <= Pow2(c.bits)

\* the two address ranges share no address
Disjoint(a, b) ==
  a.version # b.version \/ LastAddr(a) < b.network \/ LastAddr(b) < a.network

\* every NormalisedCidr a returning call hands back
ReturnedCidrs ==
  CASE op \in {"parseCidr", "parseCidrWithNetmask", "mergeSiblings",
               "minimalCoveringSupernet"} -> {res.val}
    [] op \in {"rangeToMinimalPrefixes", "splitBinary", "splitIntoN",
               "summarizePrefixes", "intersectPrefixes"} -> Range(res.val)
    [] op = "splitByHostCount" -> Range(res.val.subnets)
    [] op = "allocateVlsm" -> {res.val[i].cidr : i \in 1..Len(res.val)}
    [] OTHER -> {}

\* C1: every NormalisedCidr returned by parseCidr, parseCidrWithNetmask,
\* rangeToMinimalPrefixes, splitBinary, splitIntoN, splitByHostCount,
\* mergeSiblings, summarizePrefixes, minimalCoveringSupernet,
\* intersectPrefixes and allocateVlsm on canonical inputs has no host bit set
\* (network == network & mask(prefix, bits)) and 0 <= prefix <= bits.
C1_MaskInvariant ==
  (op \notin {"idle", "subnetMeta", "containsPrefix"} /\ res.ok)
    => \A c \in ReturnedCidrs : Canonical(c)

\* C1 witness: a range that needs several blocks of different sizes
C1_Witness ==
  /\ op = "rangeToMinimalPrefixes" /\ res.ok
  /\ Len(res.val) >= 3
  /\ \E i, j \in 1..Len(res.val) : res.val[i].prefix # res.val[j].prefix

\* the cidrs of the results with allocated = true, in result order
AllocatedCidrs ==
  LET IsAllocated(x) == x.allocated
      a == SelectSeq(res.val, IsAllocated)
  IN [i \in 1..Len(a) |-> a[i].cidr]

\* C2: the cidrs of all results with allocated = true are pairwise
\* non-overlapping (detectOverlaps reports hasOverlap = false) and none of
\* them overlaps a reserved block.
C2_VlsmNonOverlap ==
  (op = "allocateVlsm" /\ res.ok) =>
    /\ ~detectOverlaps(AllocatedCidrs).hasOverlap
    /\ \A i, j \in 1..Len(AllocatedCidrs) :
         i # j => Disjoint(AllocatedCidrs[i], AllocatedCidrs[j])
    /\ \A i \in 1..Len(AllocatedCidrs) : \A k \in 1..Len(args.reserved) :
         Disjoint(AllocatedCidrs[i], args.reserved[k])

\* C2 witness: two blocks placed around a reserved block
C2_Witness ==
  /\ op = "allocateVlsm" /\ res.ok
  /\ Len(AllocatedCidrs) >= 2
  /\ args.reserved # <<>>
  /\ \E i \in 1..Len(AllocatedCidrs) : AllocatedCidrs[i].network # args.parent.network

\* every reserved block lies within the parent and every request sets
\* requiredHosts or requiredPrefix
ValidBatch ==
  /\ \A k \in 1..Len(args.reserved) : containsPrefix(args.parent, args.reserved[k])
  /\ \A i \in 1..Len(args.requests) :
       Has(args.requests[i], "requiredPrefix") \/ Has(args.requests[i], "requiredHosts")

\* C3 (as claimed): allocateVlsm returns one result per request and the i-th
\* result is the result of the i-th input request.
C3_InputOrder ==
  (op = "allocateVlsm" /\ res.ok) =>
    /\ Len(res.val) = Len(args.requests)
    /\ \A i \in 1..Len(res.val) : res.val[i].name = args.requests[i].name

\* C4 (as claimed): a batch whose requests all set requiredHosts or
\* requiredPrefix, whatever the value, never throws: every request gets a
\* result, and one that is not placed has allocated = false and the parent
\* as its cidr.
C4_NeverThrows ==
  (op = "allocateVlsm" /\ ValidBatch) =>
    /\ res.ok
    /\ Len(res.val) = Len(args.requests)
    /\ \A i \in 1..Len(res.val) : ~res.val[i].allocated => res.val[i].cidr = args.parent

\* C5: for every canonical cidr with prefix < bits, mergeSiblings of the two
\* halves splitBinary returns, in either argument order, is cidr again.
C5_SplitMergeInverse ==
  (op = "splitBinary" /\ args.cidr.prefix < args.cidr.bits) =>
    /\ res.ok
    /\ mergeSiblings(res.val[1], res.val[2]) = Ok(args.cidr)
    /\ mergeSiblings(res.val[2], res.val[1]) = Ok(args.cidr)

\* C5 witness: an IPv6 block that is neither the whole space nor a /bits-1
C5_Witness ==
  /\ op = "splitBinary" /\ res.ok
  /\ args.cidr.version = 6 /\ args.cidr.prefix > 0 /\ args.cidr.network > 0
  /\ res.val[2].network > res.val[1].network

\* C6 (as claimed): for two or more prefixes of one version the result has
\* the longest prefix length p at which the smallest network and the largest
\* last address agree, and network = minNetwork with its low bits cleared.
C6_SmallestSupernet ==
  (/\ op = "minimalCoveringSupernet"
   /\ Len(args.cidrs) >= 2
   /\ \A i \in 1..Len(args.cidrs) : args.cidrs[i].version = args.cidrs[1].version) =>
    LET bits == args.cidrs[1].bits
        minNet == SetMin({c.network : c \in Range(args.cidrs)})
        maxLast == SetMax({LastAddr(c) : c \in Range(args.cidrs)})
        p == SetMax({q \in 0..bits :
                       minNet \div Pow2(bits - q) = maxLast \div Pow2(bits - q)})
    IN /\ res.ok
       /\ res.val.prefix = p
       /\ res.val.network = minNet - (minNet % Pow2(bits - p))

\* C7 (as claimed): no two elements of the result of summarizePrefixes are a
\* sibling pair that mergeSiblings would accept.
C7_NoMergeablePair ==
  (op = "summarizePrefixes" /\ res.ok) =>
    \A i, j \in 1..Len(res.val) :
      i # j => ~mergeSiblings(res.val[i], res.val[j]).ok

\* C8: subnetMeta follows the edge-case table for every prefix in [0, bits]:
\* addressCount = 2^(bits-prefix); IPv4 /bits: 1 usable, first = last =
\* network; IPv4 /bits-1: 2 usable, network..last; other IPv4: count - 2,
\* network+1..last-1; IPv6: all usable, network..last; broadcast (= last)
\* only for IPv4.  It returns for every canonical network.
C8_MetaTable ==
  (op = "subnetMeta" /\ args.prefix >= 0 /\ args.prefix <= args.bits) =>
    LET size == Pow2(args.bits - args.prefix)
        last == args.network - (args.network % size) + size - 1
        v4 == args.version = 4
        host == v4 /\ args.prefix = args.bits
        p2p == v4 /\ args.prefix = args.bits - 1
        other == v4 /\ ~host /\ ~p2p
        text(n) == formatAddress(args.version, n).val
    IN /\ args.network % size = 0 => res.ok
       /\ res.ok =>
            /\ res.val.addressCount = size
            /\ res.val.usableCount = (IF other THEN size - 2 ELSE size)
            /\ res.val.firstUsable = text(IF other THEN args.network + 1 ELSE args.network)
            /\ res.val.lastUsable =
                 text(IF host THEN args.network ELSE IF other THEN last - 1 ELSE last)
            /\ res.val.lastAddress = text(last)
            /\ res.val.broadcast = (IF v4 THEN <<text(last)>> ELSE <<>>)

\* C8 witness: the IPv4 point-to-point row of the table
C8_Witness ==
  /\ op = "subnetMeta" /\ res.ok
  /\ args.version = 4 /\ args.prefix = args.bits - 1 /\ args.network > 0
  /\ res.val.usableCount = 2

\* C9: if containsPrefix(a, b) and containsPrefix(b, a) then a and b have
\* the same network and prefix; containsPrefix is false whenever the
\* versions differ or a.prefix > b.prefix.
C9_ContainmentAntisymmetry ==
  op = "containsPrefix" =>
    /\ (res.val /\ containsPrefix(args.b, args.a))
         => (args.a.network = args.b.network /\ args.a.prefix = args.b.prefix)
    /\ (args.a.version # args.b.version \/ args.a.prefix > args.b.prefix) => ~res.val

\* C9 witness: a prefix contains itself, both ways
C9_Witness ==
  /\ op = "containsPrefix" /\ res.val
  /\ containsPrefix(args.b, args.a)
  /\ args.a.prefix > 0

\* C10: for every input parseCidr accepts, the network is the address with
\* its host bits cleared, and parsing the formatted result gives the same
\* NormalisedCidr again.
C10_NormalizeIdempotent ==
  (op = "parseCidr" /\ res.ok) =>
    LET c == res.val
        addr == IF isLikelyIpv6(args.input.addr) THEN ipv6ToBigInt(args.input.addr).val
                ELSE ipv4ToBigInt(args.input.addr).val
        again == formatCidr(c.version, c.network, c.prefix)
    IN /\ c.prefix = args.input.prefix
       /\ c.network = addr - (addr % Pow2(c.bits - c.prefix))
       /\ again.ok
       /\ parseCidr(again.val) = res

\* C10 witness: an IPv6 text with host bits set whose canonical text differs
C10_Witness ==
  /\ op = "parseCidr" /\ res.ok
  /\ res.val.version = 6
  /\ res.val.network # ipv6ToBigInt(args.input.addr).val
  /\ res.val.network > 0
  /\ formatCidr(6, res.val.network, res.val.prefix).val # args.input

\* the addresses of a block
AddrsOf(c) == c.network..LastAddr(c)

\* the number an address text of the call stands for
TextValue(t) == IF isLikelyIpv6(t) THEN ipv6ToBigInt(t).val ELSE ipv4ToBigInt(t).val

\* C11: rangeToMinimalPrefixes(start, end) with start <= end returns blocks
\* in strictly ascending network order, pairwise disjoint, whose union is
\* exactly the interval [start, end], also when end is the all-ones address;
\* with start > end it fails.
C11_RangeExact ==
  op = "rangeToMinimalPrefixes" =>
    LET s == TextValue(args.start)
        e == TextValue(args.end)
    IN IF s > e THEN ~res.ok
       ELSE /\ res.ok
            /\ \A i \in 1..Len(res.val) : Canonical(res.val[i])
            /\ \A i \in 1..(Len(res.val) - 1) : res.val[i].network < res.val[i + 1].network
            /\ \A i, j \in 1..Len(res.val) : i # j => Disjoint(res.val[i], res.val[j])
            /\ UNION {AddrsOf(res.val[i]) : i \in 1..Len(res.val)} = s..e

\* C11 witness: a range from an odd address up to the all-ones address
C11_Witness ==
  /\ op = "rangeToMinimalPrefixes" /\ res.ok
  /\ TextValue(args.start) % 2 = 1
  /\ TextValue(args.end) = Pow2(res.val[1].bits) - 1
  /\ Len(res.val) >= 3

\* a and b are the two distinct children of one parent
TrueSiblings(a, b) ==
  /\ a.version = b.version /\ a.bits = b.bits
  /\ a.prefix = b.prefix /\ a.prefix > 0
  /\ a.network # b.network
  /\ a.network \div Pow2(a.bits - a.prefix + 1) = b.network \div Pow2(a.bits - a.prefix + 1)

\* C12: mergeSiblings(a, b) succeeds exactly when a and b have the same
\* version, bits and prefix > 0 and are the two distinct children of one
\* parent at prefix - 1, in either order, and then returns that parent; it
\* fails for identical arguments, for differing prefix lengths and for
\* same-sized adjacent blocks of different parents.
C12_MergeExact ==
  op = "mergeSiblings" =>
    /\ res.ok <=> TrueSiblings(args.a, args.b)
    /\ res.ok =>
         /\ res.val.version = args.a.version /\ res.val.bits = args.a.bits
         /\ res.val.prefix = args.a.prefix - 1
         /\ Canonical(res.val)
         /\ AddrsOf(res.val) = AddrsOf(args.a) \cup AddrsOf(args.b)
    /\ args.a = args.b => ~res.ok
    /\ args.a.prefix # args.b.prefix => ~res.ok

\* C12 witness: two same-sized adjacent blocks of different parents are refused
C12_Witness ==
  /\ op = "mergeSiblings" /\ ~res.ok
  /\ args.a.version = args.b.version /\ args.a.prefix = args.b.prefix
  /\ args.a.prefix > 1
  /\ LastAddr(args.a) + 1 = args.b.network

\* C13: splitIntoN(cidr, n) with n = 2^k a positive power of two and
\* cidr.prefix + k <= bits returns exactly n blocks of prefix cidr.prefix + k,
\* the i-th (0-based) at cidr.network + i * 2^(bits - prefix - k), so they
\* are contiguous, ascending and partition cidr; otherwise it fails.
C13_SplitIntoN ==
  op = "splitIntoN" =>
    LET c == args.cidr
        ks == {k \in 0..c.bits : args.n = Pow2(k) /\ c.prefix + k <= c.bits}
    IN IF ks = {} THEN ~res.ok
       ELSE LET k == CHOOSE x \in ks : TRUE
                size == Pow2(c.bits - c.prefix - k)
            IN /\ res.ok
               /\ Len(res.val) = args.n
               /\ \A i \in 1..Len(res.val) :
                    res.val[i] = Cidr(c.version, c.network + (i - 1) * size, c.prefix + k)
               /\ \A i \in 1..(Len(res.val) - 1) :
                    LastAddr(res.val[i]) + 1 = res.val[i + 1].network
               /\ UNION {AddrsOf(res.val[i]) : i \in 1..Len(res.val)} = AddrsOf(c)

\* C13 witness: a block that is not the whole space split in four or more
C13_Witness ==
  /\ op = "splitIntoN" /\ res.ok
  /\ args.n >= 4 /\ args.cidr.network > 0
  /\ Len(res.val) = args.n

\* usableCount as subnetMeta computes it for a block of the given prefix
UsableCount(version, prefix) ==
  subnetMeta(0, prefix, version, BitsOf(version)).val.usableCount

\* the prefix lengths whose blocks hold the hosts
Accommodating(version, hosts) ==
  {p \in 0..BitsOf(version) : UsableCount(version, p) >= hosts}

\* C14 (as claimed): for every hosts >= 1 that fits in the parent, the prefix
\* splitByHostCount returns is the longest prefix length whose usableCount,
\* as subnetMeta computes it, is >= hosts.
C14_SmallestSubnet ==
  (op = "splitByHostCount" /\ args.requiredHosts >= 1 /\ res.ok) =>
    LET acc == Accommodating(args.cidr.version, args.requiredHosts)
    IN /\ acc # {}
       /\ res.val.prefix = SetMax(acc)

\* how two blocks of one version whose address sets intersect relate
OverlapKind(a, b) ==
  IF a.network = b.network /\ a.prefix = b.prefix THEN "IDENTICAL"
  ELSE IF AddrsOf(b) \subseteq AddrsOf(a) THEN "A_CONTAINS_B"
  ELSE IF AddrsOf(a) \subseteq AddrsOf(b) THEN "B_CONTAINS_A"
  ELSE "PARTIAL"

\* C15: detectOverlaps reports exactly the index pairs i < j of same-version
\* prefixes whose address ranges intersect, each classified IDENTICAL,
\* A_CONTAINS_B, B_CONTAINS_A or PARTIAL; hasOverlap is true iff a pair is
\* reported, so adjacent disjoint prefixes give hasOverlap = false.
C15_OverlapsExact ==
  op = "detectOverlaps" =>
    LET cidrs == args.cidrs
        expected ==
          {[i |-> i, j |-> j, a |-> cidrs[i], b |-> cidrs[j],
            type |-> OverlapKind(cidrs[i], cidrs[j])] :
             <<i, j>> \in {x \in (1..Len(cidrs)) \X (1..Len(cidrs)) :
                             /\ x[1] < x[2]
                             /\ cidrs[x[1]].version = cidrs[x[2]].version
                             /\ AddrsOf(cidrs[x[1]]) \cap AddrsOf(cidrs[x[2]]) # {}}}
    IN /\ res.ok
       /\ res.val.overlaps = expected
       /\ res.val.hasOverlap <=> expected # {}

\* C15 witness: a list with an adjacent pair that is not reported and a
\* nested pair that is, the later block containing the earlier
C15_Witness ==
  /\ op = "detectOverlaps" /\ res.ok
  /\ \E x \in res.val.overlaps : x.type = "B_CONTAINS_A"
  /\ \E i, j \in 1..Len(args.cidrs) :
       /\ i < j /\ args.cidrs[i].version = args.cidrs[j].version
       /\ LastAddr(args.cidrs[i]) + 1 = args.cidrs[j].network
       /\ \A x \in res.val.overlaps : ~(x.i = i /\ x.j = j)

\* C16: if any reserved block is not contained in parent (a block of the
\* other IP version or a block larger than parent included), allocateVlsm
\* fails and returns no allocations, whatever the requests.
C16_ReservedValidated ==
  (/\ op = "allocateVlsm"
   /\ \E k \in 1..Len(args.reserved) :
        \/ args.reserved[k].version # args.parent.version
        \/ ~(AddrsOf(args.reserved[k]) \subseteq AddrsOf(args.parent)))
    => res = Err

\* C16 witness: a reserved block larger than the parent, after a valid one,
\* with a request the parent could have served
C16_Witness ==
  /\ op = "allocateVlsm" /\ res = Err
  /\ Len(args.reserved) = 2
  /\ args.reserved[2].version = args.parent.version
  /\ args.reserved[2].prefix < args.parent.prefix
  /\ containsPrefix(args.parent, args.reserved[1])
  /\ Len(args.requests) >= 1
  /\ Has(args.requests[1], "requiredPrefix")
  /\ args.requests[1].requiredPrefix = args.parent.prefix + 1

\* C17: parseCidrWithNetmask accepts exactly the netmasks equal to
\* mask(p, bits) for some p in [0, bits], returning prefix p and network =
\* address & mask; every other netmask value fails.
C17_NetmaskExact ==
  op = "parseCidrWithNetmask" =>
    LET version == IF isLikelyIpv6(args.address) THEN 6 ELSE 4
        bits == BitsOf(version)
        a == TextValue(args.address)
        m == TextValue(args.netmask)
        ps == {p \in 0..bits : m = Pow2(bits) - Pow2(bits - p)}
    IN IF ps = {} THEN ~res.ok
       ELSE LET p == CHOOSE x \in ps : TRUE
            IN res = Ok(Cidr(version, a - (a % Pow2(bits - p)), p))

\* C17 witness: a mask with ones, then zeros, then ones again is refused
C17_Witness ==
  /\ op = "parseCidrWithNetmask" /\ ~res.ok
  /\ ~isLikelyIpv6(args.netmask)
  /\ TextValue(args.netmask) % 2 = 1
  /\ TextValue(args.netmask) >= Pow2(Bits4 - 1)
  /\ TextValue(args.netmask) < Pow2(Bits4) - 1

\* the maximal runs <<start, length>> of two or more zero hextets
ZeroRuns(h) ==
  {r \in (1..Len(h)) \X (2..Len(h)) :
     /\ r[1] + r[2] - 1 <= Len(h)
     /\ \A i \in r[1]..(r[1] + r[2] - 1) : h[i] = 0
     /\ (r[1] = 1 \/ h[r[1] - 1] # 0)
     /\ (r[1] + r[2] - 1 = Len(h) \/ h[r[1] + r[2]] # 0)}

\* C18: for every 128-bit value n, ipv6ToBigInt(bigIntToIpv6(n)) = n, and
\* bigIntToIpv6 writes '::' at most once, in place of the earliest run of
\* maximal length among the runs of two or more zero hextets.
C18_Ipv6RoundTrip ==
  (op = "bigIntToIpv6" /\ args.n >= 0 /\ args.n < Pow2(Bits6)) =>
    LET h == [i \in 1..Bits6 |-> (args.n \div Pow2(Bits6 - i)) % 2]
        runs == ZeroRuns(h)
        len == SetMax({r[2] : r \in runs})
        start == SetMin({r[1] : r \in {x \in runs : x[2] = len}})
    IN /\ res.ok
       /\ ipv6ToBigInt(res.val) = Ok(args.n)
       /\ Len(res.val.parts) <= 2
       /\ IF runs = {} THEN res.val.parts = <<h>>
          ELSE res.val.parts =
                 <<SubSeq(h, 1, start - 1), SubSeq(h, start + len, Bits6)>>

\* C18 witness: two zero runs of the same length, the first one compressed
C18_Witness ==
  /\ op = "bigIntToIpv6" /\ res.ok
  /\ Len(res.val.parts) = 2
  /\ Len(res.val.parts[1]) > 0
  /\ \E i \in 1..(Len(res.val.parts[2]) - 1) :
       res.val.parts[2][i] = 0 /\ res.val.parts[2][i + 1] = 0
  /\ ipv6ToBigInt(res.val) = Ok(args.n)

\* C19: intersectPrefixes(a, b) returns null exactly when the versions
\* differ or the two ranges are disjoint; otherwise it returns the more
\* specific (longer-prefix) of the two inputs, whose range is contained in
\* both a and b.
C19_IntersectExact ==
  op = "intersectPrefixes" =>
    LET a == args.a
        b == args.b
        apart == a.version # b.version \/ AddrsOf(a) \cap AddrsOf(b) = {}
    IN /\ res.ok
       /\ (res.val = <<>>) <=> apart
       /\ ~apart =>
            /\ res.val = <<IF a.prefix >= b.prefix THEN a ELSE b>>
            /\ AddrsOf(res.val[1]) = AddrsOf(a) \cap AddrsOf(b)

\* C19 witness: the first argument lies properly inside the second
C19_Witness ==
  /\ op = "intersectPrefixes" /\ res.ok
  /\ res.val = <<args.a>>
  /\ args.a.prefix > args.b.prefix
  /\ args.b.prefix > 0

\* C20: differencePrefixes(a, b) returns the empty sequence if b fully
\* contains a (a = b included), [a] unchanged if a and b do not overlap or
\* differ in version, and [a] unmodified when a properly contains b, so
\* that the result then still covers the addresses of b.
C20_DifferenceSimplified ==
  op = "differencePrefixes" =>
    LET a == args.a
        b == args.b
        same == a.version = b.version
    IN /\ res.ok
       /\ (same /\ AddrsOf(a) \subseteq AddrsOf(b)) => res.val = <<>>
       /\ (~same \/ AddrsOf(a) \cap AddrsOf(b) = {}) => res.val = <<a>>
       /\ (same /\ AddrsOf(b) \subseteq AddrsOf(a) /\ AddrsOf(b) # AddrsOf(a)) =>
            /\ res.val = <<a>>
            /\ AddrsOf(b) \subseteq AddrsOf(res.val[1])

\* C20 witness: a properly contains b and comes back whole
C20_Witness ==
  /\ op = "differencePrefixes" /\ res.ok
  /\ args.a.version = args.b.version
  /\ args.a.prefix < args.b.prefix /\ args.a.prefix > 0
  /\ containsPrefix(args.a, args.b)
  /\ res.val = <<args.a>>

\* the address text parses in the block's version and names an address of
\* the block
Holds(c, t) ==
  /\ isLikelyIpv6(t) <=> c.version = 6
  /\ IF c.version = 6 THEN ipv6ToBigInt(t).ok ELSE ipv4ToBigInt(t).ok
  /\ TextValue(t) \in AddrsOf(c)

\* C21: longestPrefixMatch(ip, cidrs) returns the first element of cidrs,
\* among those that contain ip, whose prefix length is the maximum among
\* those; it returns null exactly when no element contains ip (the empty
\* list and an ip that does not parse included).
C21_LongestMatch ==
  op = "longestPrefixMatch" =>
    LET hits == {i \in 1..Len(args.cidrs) : Holds(args.cidrs[i], args.ip)}
        best == {i \in hits : \A j \in hits :
                   /\ args.cidrs[j].prefix <= args.cidrs[i].prefix
                   /\ args.cidrs[j].prefix = args.cidrs[i].prefix => i <= j}
    IN /\ res.ok
       /\ (res.val = <<>>) <=> (hits = {})
       /\ hits # {} => \E i \in best : res.val = <<args.cidrs[i]>>

\* a lookup whose longest match is not the first block that contains the
\* address
C21_Witness ==
  /\ op = "longestPrefixMatch"
  /\ res.ok /\ res.val # <<>>
  /\ \E i, j \in 1..Len(args.cidrs) :
       /\ i < j
       /\ Holds(args.cidrs[i], args.ip)
       /\ args.cidrs[i].prefix < args.cidrs[j].prefix
       /\ res.val = <<args.cidrs[j]>>

\* C22: for a canonical cidr with prefix < bits, getChildren(cidr) is
\* splitBinary(cidr) and getParent of each of the two children is cidr;
\* getChildren is null when prefix = bits and getParent is null when
\* prefix = 0.
C22_ChildrenParent ==
  /\ op = "getChildren" =>
       IF args.cidr.prefix = args.cidr.bits THEN res = Ok(<<>>)
       ELSE /\ res = splitBinary(args.cidr)
            /\ \A k \in 1..2 : getParent(res.val[k]) = Ok(<<args.cidr>>)
  /\ op = "getParent" =>
       (res = Ok(<<>>)) <=> (args.cidr.prefix = 0)

\* the children of a block that is itself a right half, whose right child
\* leads back to it
C22_Witness ==
  /\ op = "getChildren"
  /\ args.cidr.prefix < args.cidr.bits
  /\ args.cidr.network # 0
  /\ Len(res.val) = 2
  /\ res.val[2].network > args.cidr.network
  /\ getParent(res.val[2]) = Ok(<<args.cidr>>)

\* the prefix a request asks for under a parent: the explicit one, or the
\* width less the host bits of its host count
RequiredPrefixOf(parent, req) ==
  IF Has(req, "requiredPrefix") THEN req.requiredPrefix
  ELSE parent.bits - HostBits(parent.version, req.requiredHosts)

\* the blocks already taken when the i-th result was placed: the reserved
\* ones and the blocks of the earlier allocated results
TakenBefore(i) ==
  Range(args.reserved) \cup {res.val[j].cidr : j \in {k \in 1..(i - 1) : res.val[k].allocated}}

\* the networks of the blocks of one prefix inside parent that no taken
\* block shares an address with
FreeNetworks(parent, prefix, taken) ==
  {n \in AddrsOf(parent) :
     /\ n % Pow2(parent.bits - prefix) = 0
     /\ \A t \in taken : Disjoint(Cidr(parent.version, n, prefix), t)}

\* C23 (as claimed): every result of allocateVlsm with allocated = true has
\* exactly the prefix its request asks for, lies within parent and is the
\* lowest-network block of that size inside parent that overlaps no reserved
\* and no earlier allocated block, whatever the distance between the
\* required prefix and the parent's.
C23_FirstFit ==
  (op = "allocateVlsm" /\ res.ok) =>
    \A i \in 1..Len(res.val) :
      res.val[i].allocated =>
        LET req == args.requests[res.val[i].name]
            cidr == res.val[i].cidr
            required == RequiredPrefixOf(args.parent, req)
        IN /\ cidr.prefix = required
           /\ cidr.version = args.parent.version
           /\ AddrsOf(cidr) \subseteq AddrsOf(args.parent)
           /\ \A n \in FreeNetworks(args.parent, required, TakenBefore(i)) :
                cidr.network <= n

\* the input positions of the requests in the order allocateVlsm processed
\* them: it pushes one result per request as it goes
Processed == [i \in 1..Len(res.val) |-> res.val[i].name]

\* C24: under LARGEST_FIRST, PACKED_LOW, PACKED_HIGH and BALANCED the requests
\* are processed in non-decreasing order of required prefix, under
\* SMALLEST_FIRST in non-increasing order; requests of equal size are
\* processed in their input order; the requests array of the caller is not
\* reordered.
C24_ProcessingOrder ==
  (op = "allocateVlsm" /\ res.ok) =>
    LET size(k) == RequiredPrefixOf(args.parent, args.requests[k])
    IN /\ Len(Processed) = Len(args.requests)
       /\ Range(Processed) = 1..Len(args.requests)
       /\ \A i, j \in 1..Len(Processed) :
            i < j =>
              /\ IF args.strategy = "SMALLEST_FIRST"
                 THEN size(Processed[i]) >= size(Processed[j])
                 ELSE size(Processed[i]) <= size(Processed[j])
              /\ size(Processed[i]) = size(Processed[j]) => Processed[i] < Processed[j]
       /\ \A k \in 1..Len(args.requests) : args.requests[k].name = k

\* a batch whose second request is the larger one and is processed first
C24_Witness ==
  /\ op = "allocateVlsm" /\ res.ok
  /\ args.strategy = "LARGEST_FIRST"
  /\ Processed = <<2, 1>>
  /\ Has(args.requests[1], "requiredHosts")
  /\ RequiredPrefixOf(args.parent, args.requests[2]) < RequiredPrefixOf(args.parent, args.requests[1])

\* C25 (as claimed): when splitByHostCount returns, every returned subnet
\* has the returned prefix, there are exactly 2^(prefix - cidr.prefix)
\* subnets, and they partition cidr (pairwise disjoint, covering exactly its
\* addresses), for IPv4 and IPv6 and whatever prefix - cidr.prefix is.
C25_SelfConsistent ==
  (op = "splitByHostCount" /\ res.ok) =>
    LET subnets == res.val.subnets
    IN /\ \A i \in 1..Len(subnets) : subnets[i].prefix = res.val.prefix
       /\ Len(subnets) = Pow2(res.val.prefix - args.cidr.prefix)
       /\ \A i, j \in 1..Len(subnets) : i # j => Disjoint(subnets[i], subnets[j])
       /\ UNION {AddrsOf(subnets[i]) : i \in 1..Len(subnets)} = AddrsOf(args.cidr)

\* the addresses a list of prefixes covers
Covered(cidrs) == UNION {AddrsOf(cidrs[i]) : i \in 1..Len(cidrs)}

RECURSIVE PassInputs(_)
\* the lists the while loop of summarizePrefixes runs a pass over, in order
PassInputs(current) ==
  LET pass == MergePass(current, 1, <<>>)
  IN IF pass[2] THEN <<current>> \o PassInputs(pass[1]) ELSE <<current>>

\* C26: for a list of prefixes of one version, the addresses covered by the
\* result of summarizePrefixes are exactly those covered by the input; no
\* merge pass adds or loses an address, and every pass that changes the list
\* makes it shorter (a pass that does not change it ends the loop).
C26_CoveragePreserved ==
  (op = "summarizePrefixes" /\ res.ok) =>
    /\ Covered(res.val) = Covered(args.cidrs)
    /\ Len(args.cidrs) >= 2 =>
         LET inputs == PassInputs(SortByNetwork(args.cidrs, <<>>))
         IN \A k \in 1..Len(inputs) :
              LET pass == MergePass(inputs[k], 1, <<>>)
              IN /\ Covered(pass[1]) = Covered(args.cidrs)
                 /\ pass[2] => Len(pass[1]) < Len(inputs[k])
                 /\ ~pass[2] => pass[1] = inputs[k] /\ res.val = inputs[k]

\* a summary that takes two merging passes and keeps a block that merges
\* with nothing in between
C26_Witness ==
  /\ op = "summarizePrefixes" /\ res.ok
  /\ Len(args.cidrs) = 3
  /\ Len(PassInputs(SortByNetwork(args.cidrs, <<>>))) = 3
  /\ Len(res.val) = 1
  /\ Covered(res.val) = Covered(args.cidrs)

\* the condition under which intersectPrefixes falls through to its last
\* return, the partial-overlap branch
PartialBranch(a, b) ==
  /\ a.version = b.version /\ a.bits = b.bits
  /\ ~(LastAddr(a) < b.network \/ LastAddr(b) < a.network)
  /\ ~containsPrefix(a, b)
  /\ ~containsPrefix(b, a)

\* C27: for canonical prefixes of one version, ranges that intersect are
\* nested: detectOverlaps classifies no pair as PARTIAL, intersectPrefixes
\* never takes its partial-overlap branch, and every non-null intersection is
\* one of the two inputs.
C27_AlwaysNested ==
  /\ op = "detectOverlaps" =>
       \A x \in res.val.overlaps : x.type # "PARTIAL"
  /\ op = "intersectPrefixes" =>
       /\ ~PartialBranch(args.a, args.b)
       /\ res.val # <<>> => res.val[1] \in {args.a, args.b}
       /\ (args.a.version = args.b.version
           /\ AddrsOf(args.a) \cap AddrsOf(args.b) # {}) =>
            \/ AddrsOf(args.a) \subseteq AddrsOf(args.b)
            \/ AddrsOf(args.b) \subseteq AddrsOf(args.a)

\* an IPv6 block and the upper end of it: the intersection is the second
\* input, which ends where the first ends
C27_Witness ==
  /\ op = "intersectPrefixes" /\ res.ok
  /\ args.a.version = 6
  /\ args.a.prefix < args.b.prefix
  /\ args.b.network > args.a.network
  /\ LastAddr(args.b) = LastAddr(args.a)
  /\ res.val = <<args.b>>

\* C28 (as claimed): for all canonical a and b, canMerge(a, b) is true
\* exactly when mergeSiblings(a, b) succeeds, and canMerge(a, b) implies
\* areAdjacent(a, b).
C28_CanMergeAgrees ==
  op = "canMerge" =>
    /\ res.val <=> mergeSiblings(args.a, args.b).ok
    /\ res.val => areAdjacent(args.a, args.b)

RECURSIVE SumOfSizes(_, _)
\* the sum of the block sizes 2^(bits - requiredPrefix) of a batch
SumOfSizes(parent, requests) ==
  IF requests = <<>> THEN 0
  ELSE Pow2(parent.bits - RequiredPrefixOf(parent, Head(requests)))
       + SumOfSizes(parent, Tail(requests))

\* every required prefix lies between the parent's prefix and the width, at
\* a distance the 32-bit shift represents as a positive count
Packable(parent, requests) ==
  /\ \A i \in 1..Len(requests) :
       /\ Has(requests[i], "requiredPrefix") \/ Has(requests[i], "requiredHosts")
       /\ RequiredPrefixOf(parent, requests[i]) >= parent.prefix
       /\ RequiredPrefixOf(parent, requests[i]) <= parent.bits
       /\ RequiredPrefixOf(parent, requests[i]) - parent.prefix <= ShiftBits - 2
  /\ SumOfSizes(parent, requests) <= Pow2(parent.bits - parent.prefix)

\* C29: with no reserved block, when every required prefix lies in
\* [parent.prefix, bits], exceeds parent.prefix by at most 30 (here
\* ShiftBits - 2) and the requested block sizes sum to at most the parent's
\* size, allocateVlsm with LARGEST_FIRST allocates every request.
C29_LargestFirstPacks ==
  (/\ op = "allocateVlsm"
   /\ args.strategy = "LARGEST_FIRST"
   /\ args.reserved = <<>>
   /\ Packable(args.parent, args.requests)) =>
    /\ res.ok
    /\ Len(res.val) = Len(args.requests)
    /\ \A i \in 1..Len(res.val) : res.val[i].allocated

\* three requests given smallest first that fill the parent exactly
C29_Witness ==
  /\ op = "allocateVlsm" /\ res.ok
  /\ args.strategy = "LARGEST_FIRST"
  /\ args.reserved = <<>>
  /\ Len(args.requests) = 3
  /\ Packable(args.parent, args.requests)
  /\ SumOfSizes(args.parent, args.requests) = Pow2(args.parent.bits - args.parent.prefix)
  /\ RequiredPrefixOf(args.parent, args.requests[1])
       > RequiredPrefixOf(args.parent, args.requests[3])
  /\ \A i \in 1..Len(res.val) : res.val[i].allocated

RECURSIVE NodesOf(_)
\* every node of a tree
NodesOf(node) ==
  IF node.children = <<>> THEN {node}
  ELSE {node} \cup NodesOf(node.children[1]) \cup NodesOf(node.children[2])

\* the prefix a node stands for
NodeCidr(node) == Cidr(node.version, node.network, node.prefix)

\* C30: from a single root, after any sequence of toggleSplit on any node
\* ids under a fixed maxDepth, the leaves collectLeaves returns are pairwise
\* non-overlapping and cover exactly the root prefix, the two children of
\* every node are its splitBinary halves, and no node has a prefix greater
\* than bits or more than maxDepth above the root's.
C30_TreeInvariant ==
  root # <<>> =>
    LET leaves == collectLeaves(root[1])
    IN /\ \A i, j \in 1..Len(leaves) :
            i # j => Disjoint(NodeCidr(leaves[i]), NodeCidr(leaves[j]))
       /\ UNION {AddrsOf(NodeCidr(leaves[i])) : i \in 1..Len(leaves)}
            = AddrsOf(NodeCidr(root[1]))
       /\ \A n \in NodesOf(root[1]) :
            /\ n.children # <<>> =>
                 <<NodeCidr(n.children[1]), NodeCidr(n.children[2])>>
                   = splitBinary(NodeCidr(n)).val
            /\ n.prefix <= n.bits
            /\ n.prefix - root[1].prefix <= maxDepth

\* a tree two levels deep, at the depth limit, rebuilt after a merge: more
\* ids were handed out than the tree has nodes
C30_Witness ==
  /\ root # <<>>
  /\ op = "toggleSplit"
  /\ maxDepth = 2
  /\ Len(collectLeaves(root[1])) = 3
  /\ \E n \in NodesOf(root[1]) : n.prefix - root[1].prefix = maxDepth
  /\ idCounter > Cardinality(NodesOf(root[1]))

=============================================================================
